---- MODULE Spec2Model ----
(***************************************************************************)
(* Surikiti reverse proxy: one upstream pool (loadbalancer.LoadBalancer)    *)
(* and the request handlers that select from it, hold its in-flight         *)
(* counters and forward to its backends:                                    *)
(*   gnet  HTTPHandler.HandleTraffic       (event-loop hot path)            *)
(*   http  HTTPHandler.HandleHTTPProxy     (standard net/http handler)      *)
(*   h2    HTTP2HTTP3Server.proxyRequest   (HTTP/2 and HTTP/3 handler)      *)
(*   ws    WebSocketProxy.HandleWebSocket  (WebSocket relay)                *)
(* An instance owns two pools that share no state (loadBalancer and         *)
(* wsLoadBalancer); a behaviour follows one of them, named by poolRole.     *)
(* The lifecycle of the process is modelled next to it: the health-check    *)
(* goroutines of a pool (StartHealthCheck, StopHealthCheck) and runServer    *)
(* with the goroutines it starts per instance (serving, shutdown).           *)
(***************************************************************************)
EXTENDS Integers, Sequences, FiniteSets, TLC

\* ---------------------------------------------------------------- bounds
NumBackends == 2
MaxWeight == 2
MaxRequests == 2
MaxBodySize == 1
NumInstances == 2
MaxStarts == 2
MaxStops == 2
MaxRounds == 2
MaxShutdowns == 2

\* ------------------------------------------------------ program constants
HotMaxRetries == 2
StdMaxRetries == 3

StatusOK == 200
StatusBadRequest == 400
StatusRequestEntityTooLarge == 413
StatusInternalServerError == 500
StatusBadGateway == 502
StatusServiceUnavailable == 503
StatusSwitchingProtocols == 101

None == 0
Requests == 1..MaxRequests
Methods == {"round_robin", "weighted_round_robin", "least_connections", "single", "random"}

\* Outcomes of one upstream dispatch (client.Do): success, or an error raised
\* before the upstream was contacted, while it did not respond, or after its
\* response headers had been received.
DoOutcomes == {"ok", "refused", "noresp", "afterhdr"}
NoResponse == [status |-> 0, body |-> ""]

\* WebSocket close codes and the relay's two directions.
ClosePolicyViolation == 1008
NoCloseFrame == [code |-> 0, reason |-> ""]
Dirs == {"client->upstream", "upstream->client"}
ErrorChanCap == 2
NoMessage == [type |-> "none", data |-> ""]

\* Results of one health probe (http.Client.Get): an error (network failure or
\* the client's timeout) or a response status.
NotProbed == [err |-> FALSE, status |-> 0]
ProbeResults ==
  {[err |-> TRUE, status |-> 0]} \cup
  [err : {FALSE}, status : {StatusOK, StatusInternalServerError, StatusServiceUnavailable}]

VARIABLES
  poolRole,     \* which pool of the instance: "lb" or "wsLB"
  upstreams,    \* LoadBalancer.upstreams: sequence of [Weight]
  method,       \* LoadBalancer.method
  current,      \* LoadBalancer.current (uint64; a run makes at most MaxRequests increments)
  Healthy,      \* Upstream.Healthy, 0 or 1, per backend index
  Connections,  \* Upstream.Connections per backend index
  corsEnabled,  \* corsConfig.Enabled
  pc,           \* position of each request's handler
  path,         \* handler serving the request
  big,          \* request larger than MaxBodySize
  preflight,    \* OPTIONS request from a permitted origin, CORS enabled
  hl,           \* GetUpstream's local healthyUpstreams
  idx,          \* GetUpstream's loop position over lb.upstreams
  up,           \* the upstream the handler holds (None = nil)
  disp,         \* upstream dispatches made for the request (Do / Dial calls)
  out,          \* outcome of the latest dispatch
  resp,         \* response written to the client
  acq,          \* IncreaseConnections calls made by the handler
  rel,          \* DecreaseConnections calls made by the handler
  relUp,        \* upstream the handler released
  marked,       \* handler called MarkUnhealthy
  upgraded,     \* client connection upgraded to WebSocket
  trace,        \* calls made on the pool by a sequential caller, in order
  pending,      \* backends whose health-check goroutine of the current round is running
  lastProbe,    \* result of the latest health probe per backend (NotProbed = none yet)
  clientConn,   \* the handler's clientConn: "none", "open" or "closed"
  upstreamConn, \* the handler's upstreamConn: "none", "open" or "closed"
  closeFrame,   \* close frame the handler wrote to the client
  task,         \* position of each proxyMessages goroutine
  errorChan,    \* the session's errorChan
  held,         \* message a goroutine has read and not yet written
  wire,         \* frames the peer sent in each direction
  rd,           \* messages ReadMessage returned in each direction
  wr,           \* messages WriteMessage wrote in each direction
  healthTicker,    \* LoadBalancer.healthTicker per pool: 0 = nil, k = the ticker the k-th StartHealthCheck made
  shutdownChan,    \* LoadBalancer.shutdownChan per pool: 0 = nil, k = the channel the k-th StartHealthCheck made
  tickerStopped,   \* tickers of the pool on which Stop was called
  chanClosed,      \* shutdown channels of the pool that are closed
  tickBuf,         \* tickers of the pool with a tick waiting in their channel
  checker,         \* the goroutine each StartHealthCheck started: position and the channels its select waits on
  rounds,          \* performHealthCheck rounds begun on the pool
  stops,           \* outcome of every StopHealthCheck call on the pool, in order
  lateRounds,      \* rounds begun after a StopHealthCheck call had returned
  supPc,           \* position of runServer
  serverInstances, \* MultiServerManager.serverInstances
  kind,            \* per instance: "gnet", or "websocket" when its name contains that word
  wg,              \* the WaitGroup counter of runServer
  errChan,         \* errors waiting in runServer's errorChan
  cause,           \* what ended runServer's select: "signal" or "error"
  msmShutdownChan, \* MultiServerManager.shutdownChan is closed
  gnetStarted,     \* ServerInstance.gnetStarted is closed
  lis,             \* the instance's listening socket
  engineSet,       \* ProxyServer.engineSet
  engineStop,      \* Engine.Stop was called on the instance's engine
  httpServer,      \* ServerInstance.httpServer has been stored
  httpClosed,      \* http.Server.Shutdown was called on the instance's server
  starter,         \* position of the goroutine runServer starts per instance
  srvTask,         \* position of the instance's serving goroutine
  lsn,             \* position of the ListenAndServe goroutine of a websocket instance
  shut,            \* position of the instance's shutdownServerInstance goroutine
  sawEngine,       \* ProxyServer.Shutdown's local engineSet
  inflight,        \* one client request per instance: "none", "active", "done" or "failed"
  ctxDone,         \* the 30 s shutdownCtx has expired
  timedOut,        \* runServer's 35 s timer fired
  recovered,       \* panics recovered per instance
  crashed,         \* a panic left a goroutine unrecovered
  shutRuns,        \* ProxyServer.Shutdown calls that returned, per instance
  allowedOrigins,  \* corsConfig.AllowedOrigins
  reqOrigin,       \* handleCORS's local origin per request ("" = not read)
  reqMethod,       \* handleCORS's local method per request ("" = not read)
  acao,            \* Access-Control-Allow-Origin on the response written ("" = header absent)
  attempts,        \* the backend each dispatch of the request went to, in order
  ticket,          \* value atomic.AddUint64 returned to the request's selection (0 = no call)
  wsTimeout,       \* config.WebSocketTimeout in clock ticks (0 = no deadlines)
  now,             \* the clock
  deadline         \* read deadline set on the connection each relay direction reads

lbVars == <<poolRole, upstreams, method, current, Healthy, Connections, corsEnabled>>
reqVars == <<pc, path, big, preflight, hl, idx, up, disp, out, resp, acq, rel, relUp, marked, upgraded>>
auxVars == <<trace, pending, lastProbe>>
wsVars == <<clientConn, upstreamConn, closeFrame, task, errorChan, held, wire, rd, wr>>
hcVars == <<healthTicker, shutdownChan, tickerStopped, chanClosed, tickBuf, checker, rounds, stops,
            lateRounds>>
supVars == <<supPc, serverInstances, kind, wg, errChan, cause, msmShutdownChan, gnetStarted, lis,
             engineSet, engineStop, httpServer, httpClosed, starter, srvTask, lsn, shut, sawEngine,
             inflight, ctxDone, timedOut, recovered, crashed, shutRuns>>
lifeVars == <<hcVars, supVars>>
corsVars == <<allowedOrigins, reqOrigin, reqMethod, acao>>
histVars == <<attempts, ticket>>
timeVars == <<wsTimeout, now, deadline>>
extVars == <<corsVars, histVars, timeVars>>
vars == <<poolRole, upstreams, method, current, Healthy, Connections, corsEnabled,
          pc, path, big, preflight, hl, idx, up, disp, out, resp, acq, rel, relUp, marked, upgraded,
          trace, pending, lastProbe,
          clientConn, upstreamConn, closeFrame, task, errorChan, held, wire, rd, wr,
          healthTicker, shutdownChan, tickerStopped, chanClosed, tickBuf, checker, rounds, stops,
          lateRounds, supPc, serverInstances, kind, wg, errChan, cause, msmShutdownChan,
          gnetStarted, lis, engineSet, engineStop, httpServer, httpClosed, starter, srvTask, lsn,
          shut, sawEngine, inflight, ctxDone, timedOut, recovered, crashed, shutRuns,
          allowedOrigins, reqOrigin, reqMethod, acao, attempts, ticket, wsTimeout, now, deadline>>

Backends == 1..Len(upstreams)

\* ------------------------------------------------------------- the pool

\* GetUpstream's loop body: append the upstream when its flag reads 1.
AppendIfHealthy(list, b, flag) == IF flag = 1 THEN Append(list, b) ELSE list

RECURSIVE SumWeights(_, _)
SumWeights(ups, list) ==
  IF list = <<>> THEN 0 ELSE ups[Head(list)].Weight + SumWeights(ups, Tail(list))

\* Mutant: the index is taken over the whole pool, not the healthy list.
roundRobin_allUpstreams(list, cur) ==
  LET c == cur + 1
  IN  [up |-> (c % Len(upstreams)) + 1, cur |-> c]

\* Mutant: the index is taken from the counter before its increment.
roundRobin_preIncrement(list, cur) ==
  [up |-> list[(cur % Len(list)) + 1], cur |-> cur + 1]

roundRobin(list, cur) ==
  LET c == cur + 1
  IN  [up |-> list[(c % Len(list)) + 1], cur |-> c]

\* Mutant: the walk stops when the running sum reaches the index.
RECURSIVE WalkWeights_inclusive(_, _, _, _)
WalkWeights_inclusive(ups, list, index, currentWeight) ==
  IF list = <<>> THEN None
  ELSE LET w == currentWeight + ups[Head(list)].Weight
       IN  IF index <= w THEN Head(list) ELSE WalkWeights_inclusive(ups, Tail(list), index, w)

RECURSIVE WalkWeights(_, _, _, _)
WalkWeights(ups, list, index, currentWeight) ==
  IF list = <<>> THEN None
  ELSE LET w == currentWeight + ups[Head(list)].Weight
       IN  IF index < w THEN Head(list) ELSE WalkWeights(ups, Tail(list), index, w)

\* Mutant: with a total weight of 0 the first healthy upstream is returned.
weightedRoundRobin_firstOnZero(ups, list, cur) ==
  LET totalWeight == SumWeights(ups, list)
  IN  IF totalWeight = 0 THEN [up |-> list[1], cur |-> cur]
      ELSE LET c == cur + 1
               found == WalkWeights(ups, list, c % totalWeight, 0)
           IN  [up |-> IF found = None THEN list[1] ELSE found, cur |-> c]

\* Mutant: the counter is advanced before the total weight is looked at.
weightedRoundRobin_addThenFallBack(ups, list, cur) ==
  LET totalWeight == SumWeights(ups, list)
      c == cur + 1
  IN  IF totalWeight = 0 THEN roundRobin(list, c)
      ELSE LET found == WalkWeights(ups, list, c % totalWeight, 0)
           IN  [up |-> IF found = None THEN list[1] ELSE found, cur |-> c]

weightedRoundRobin(ups, list, cur) ==
  LET totalWeight == SumWeights(ups, list)
  IN  IF totalWeight = 0 THEN roundRobin(list, cur)
      ELSE LET c == cur + 1
               found == WalkWeights(ups, list, c % totalWeight, 0)
           IN  [up |-> IF found = None THEN list[1] ELSE found, cur |-> c]

RECURSIVE LeastLoop(_, _, _, _)
LeastLoop(list, conns, selected, minConnections) ==
  IF list = <<>> THEN selected
  ELSE LET connections == conns[Head(list)]
       IN  IF minConnections = -1 \/ connections < minConnections
           THEN LeastLoop(Tail(list), conns, Head(list), connections)
           ELSE LeastLoop(Tail(list), conns, selected, minConnections)

\* Mutant: the first healthy upstream is returned whatever the counts.
leastConnections_first(list, conns, cur) ==
  [up |-> list[1], cur |-> cur]

leastConnections(list, conns, cur) ==
  [up |-> LeastLoop(list, conns, None, -1), cur |-> cur]

single(list, cur) ==
  [up |-> IF Len(list) > 0 THEN list[1] ELSE None, cur |-> cur]

\* Mutant: round_robin is served by single.
GetUpstream_rrAsSingle(ups, m, list, conns, cur) ==
  IF Len(list) = 0 THEN [up |-> None, cur |-> cur]
  ELSE CASE m = "round_robin" -> single(list, cur)
         [] m = "weighted_round_robin" -> weightedRoundRobin(ups, list, cur)
         [] m = "least_connections" -> leastConnections(list, conns, cur)
         [] m = "single" -> single(list, cur)
         [] OTHER -> roundRobin(list, cur)

\* GetUpstream after its scan: nil on an empty healthy list, else by policy.
GetUpstream(ups, m, list, conns, cur) ==
  IF Len(list) = 0 THEN [up |-> None, cur |-> cur]
  ELSE CASE m = "round_robin" -> roundRobin(list, cur)
         [] m = "weighted_round_robin" -> weightedRoundRobin(ups, list, cur)
         [] m = "least_connections" -> leastConnections(list, conns, cur)
         [] m = "single" -> single(list, cur)
         [] OTHER -> roundRobin(list, cur)

IncreaseConnections(conns, b) == [conns EXCEPT ![b] = @ + 1]
\* Mutant: the release is lost.
DecreaseConnections_lost(conns, b) == conns
DecreaseConnections(conns, b) == [conns EXCEPT ![b] = @ - 1]
MarkUnhealthy(h, b) == [h EXCEPT ![b] = 0]
MarkHealthy(h, b) == [h EXCEPT ![b] = 1]

\* ------------------------------------------------------------- CORS filter
AllowedOrigins == <<"https://app">>
Origins == {"https://app", "https://evil"}
HttpMethods == {"GET", "OPTIONS"}

SeqContains(list, x) == \E i \in 1..Len(list) : list[i] = x

\* Policies: no entry, the wildcard alone, one origin alone, and the wildcard
\* next to an origin in either order.
OriginLists ==
  {<<>>, <<"*">>, <<"https://app">>, <<"https://app", "*">>, <<"*", "https://app">>}

\* handleCORS's allowedOrigin once the origin check has passed: the request's
\* origin under a list that does not start with the wildcard, "*" otherwise.
allowedOrigin(allowed, origin) ==
  IF Len(allowed) > 0 /\ allowed[1] # "*" THEN origin ELSE "*"

\* Mutant: a preflight is answered only while some backend is healthy.
handleCORS_needsHealthy(enabled, allowed, origin, m) ==
  IF ~enabled THEN FALSE
  ELSE IF Len(allowed) > 0 /\ allowed[1] # "*" /\ ~SeqContains(allowed, origin) THEN FALSE
  ELSE m = "OPTIONS" /\ \E b \in DOMAIN Healthy : Healthy[b] = 1

\* handleCORS: TRUE when the request was answered as a preflight.
handleCORS(enabled, allowed, origin, m) ==
  IF ~enabled THEN FALSE
  ELSE IF Len(allowed) > 0 /\ allowed[1] # "*" /\ ~SeqContains(allowed, origin) THEN FALSE
  ELSE m = "OPTIONS"

\* The precondition of the preflight claims: an OPTIONS request whose origin the
\* policy permits (empty list, a wildcard entry or an exact match), CORS enabled.
IsPreflight(enabled, allowed, origin, m) ==
  /\ enabled
  /\ m = "OPTIONS"
  /\ (Len(allowed) = 0 \/ SeqContains(allowed, "*") \/ SeqContains(allowed, origin))

\* ------------------------------------------------------------------- Init
WeightChoices(m, maxW) == IF m = "weighted_round_robin" THEN 0..maxW ELSE {1}

\* ------------------------------------------------------- lifecycle state
\* An instance owns two pools: ServerInstance.loadBalancer and
\* ServerInstance.wsLoadBalancer.
Instances == 1..NumInstances
Pools == 1..(2 * NumInstances)
loadBalancer(i) == 2 * i - 1
wsLoadBalancer(i) == 2 * i
Gens == 1..MaxStarts
NoChecker == [pc |-> "none", ticker |-> 0, chan |-> 0]

\* Nothing constructed yet: no ticker, no channel, no goroutine, runServer at
\* its creation loop.  The request-level specifications leave the lifecycle
\* variables at these values.
InitLifecycle ==
  /\ healthTicker = [p \in Pools |-> 0]
  /\ shutdownChan = [p \in Pools |-> 0]
  /\ tickerStopped = [p \in Pools |-> {}]
  /\ chanClosed = [p \in Pools |-> {}]
  /\ tickBuf = [p \in Pools |-> {}]
  /\ checker = [p \in Pools |-> [g \in Gens |-> NoChecker]]
  /\ rounds = [p \in Pools |-> 0]
  /\ stops = [p \in Pools |-> <<>>]
  /\ lateRounds = [p \in Pools |-> 0]
  /\ supPc = "create"
  /\ serverInstances = <<>>
  /\ kind = [i \in Instances |-> "none"]
  /\ wg = 0
  /\ errChan = 0
  /\ cause = "none"
  /\ msmShutdownChan = FALSE
  /\ gnetStarted = [i \in Instances |-> FALSE]
  /\ lis = [i \in Instances |-> "none"]
  /\ engineSet = [i \in Instances |-> FALSE]
  /\ engineStop = [i \in Instances |-> FALSE]
  /\ httpServer = [i \in Instances |-> FALSE]
  /\ httpClosed = [i \in Instances |-> FALSE]
  /\ starter = [i \in Instances |-> "none"]
  /\ srvTask = [i \in Instances |-> "none"]
  /\ lsn = [i \in Instances |-> "none"]
  /\ shut = [i \in Instances |-> "none"]
  /\ sawEngine = [i \in Instances |-> FALSE]
  /\ inflight = [i \in Instances |-> "none"]
  /\ ctxDone = FALSE
  /\ timedOut = FALSE
  /\ recovered = [i \in Instances |-> 0]
  /\ crashed = FALSE
  /\ shutRuns = [i \in Instances |-> 0]

\* The state after NewLoadBalancer and NewProxyServer, no request accepted yet:
\* a pool of one of the given sizes, weights up to maxW, URL schemes from schemes.
InitPoolCfg(roles, methods, sizes, maxW, schemes, originLists, timeouts) ==
  /\ poolRole \in roles
  /\ method \in methods
  /\ \E n \in sizes :
       /\ upstreams \in [1..n -> [Weight : WeightChoices(method, maxW), Scheme : schemes]]
       /\ Healthy = [b \in 1..n |-> 1]
       /\ Connections = [b \in 1..n |-> 0]
       /\ lastProbe = [b \in 1..n |-> NotProbed]
  /\ pending = {}
  /\ trace = <<>>
  /\ clientConn = [r \in Requests |-> "none"]
  /\ upstreamConn = [r \in Requests |-> "none"]
  /\ closeFrame = [r \in Requests |-> NoCloseFrame]
  /\ task = [r \in Requests |-> [d \in Dirs |-> "none"]]
  /\ errorChan = [r \in Requests |-> <<>>]
  /\ held = [r \in Requests |-> [d \in Dirs |-> NoMessage]]
  /\ wire = [r \in Requests |-> [d \in Dirs |-> <<>>]]
  /\ rd = [r \in Requests |-> [d \in Dirs |-> <<>>]]
  /\ wr = [r \in Requests |-> [d \in Dirs |-> <<>>]]
  /\ current = 0
  /\ corsEnabled \in (IF poolRole = "lb" THEN BOOLEAN ELSE {FALSE})
  /\ pc = [r \in Requests |-> "idle"]
  /\ path = [r \in Requests |-> "none"]
  /\ big = [r \in Requests |-> FALSE]
  /\ preflight = [r \in Requests |-> FALSE]
  /\ hl = [r \in Requests |-> <<>>]
  /\ idx = [r \in Requests |-> 0]
  /\ up = [r \in Requests |-> None]
  /\ disp = [r \in Requests |-> 0]
  /\ out = [r \in Requests |-> "none"]
  /\ resp = [r \in Requests |-> NoResponse]
  /\ acq = [r \in Requests |-> 0]
  /\ rel = [r \in Requests |-> 0]
  /\ relUp = [r \in Requests |-> None]
  /\ marked = [r \in Requests |-> FALSE]
  /\ upgraded = [r \in Requests |-> FALSE]
  /\ allowedOrigins \in originLists
  /\ reqOrigin = [r \in Requests |-> ""]
  /\ reqMethod = [r \in Requests |-> ""]
  /\ acao = [r \in Requests |-> ""]
  /\ attempts = [r \in Requests |-> <<>>]
  /\ ticket = [r \in Requests |-> 0]
  /\ wsTimeout \in timeouts
  /\ now = 0
  /\ deadline = [r \in Requests |-> [d \in Dirs |-> 0]]
  /\ InitLifecycle

\* The same with the example policy (one allowed origin) and no WebSocket
\* timeout.
InitPool(roles, methods, sizes, maxW, schemes) ==
  InitPoolCfg(roles, methods, sizes, maxW, schemes, {AllowedOrigins}, {0})

InitWith(roles, methods) == InitPool(roles, methods, 0..NumBackends, MaxWeight, {"http"})

\* Concurrent requests on a pool with the default policy or the one policy
\* that reads the connection counters.
Init == InitWith({"lb", "wsLB"}, {"round_robin", "least_connections"})

\* One request at a time, every policy.
InitSingle == InitWith({"lb", "wsLB"}, Methods)

\* Concurrent selections on the HTTP pool, every policy and weight vector.
InitSel == InitWith({"lb"}, Methods)

\* --------------------------------------------------------- handler entries
\* Requests are admitted in order of their index.
CanArrive(r) == pc[r] = "idle" /\ (IF r = 1 THEN TRUE ELSE pc[r - 1] # "idle")

Respond(r, status, body) ==
  /\ resp' = [resp EXCEPT ![r] = [status |-> status, body |-> body]]
  /\ pc' = [pc EXCEPT ![r] = "done"]

BeginSelect(r) ==
  /\ pc' = [pc EXCEPT ![r] = "select"]
  /\ idx' = [idx EXCEPT ![r] = 1]
  /\ hl' = [hl EXCEPT ![r] = <<>>]

\* HandleTraffic up to the call of GetUpstream.
HandleTraffic(r, len, parseOk, m, origin) ==
  /\ CanArrive(r)
  /\ poolRole = "lb"
  /\ path' = [path EXCEPT ![r] = "gnet"]
  /\ big' = [big EXCEPT ![r] = len > MaxBodySize]
  /\ preflight' = [preflight EXCEPT ![r] =
       len > 0 /\ len <= MaxBodySize /\ parseOk /\ IsPreflight(corsEnabled, allowedOrigins, origin, m)]
  /\ IF len = 0
       THEN /\ pc' = [pc EXCEPT ![r] = "done"]
            /\ UNCHANGED <<resp, idx, hl>>
     ELSE IF len > MaxBodySize
       THEN Respond(r, StatusRequestEntityTooLarge, "Request Entity Too Large") /\ UNCHANGED <<idx, hl>>
     ELSE IF ~parseOk \/ m = ""
       THEN Respond(r, StatusBadRequest, "Bad Request") /\ UNCHANGED <<idx, hl>>
     ELSE IF handleCORS(corsEnabled, allowedOrigins, origin, m)
       THEN Respond(r, StatusOK, "") /\ UNCHANGED <<idx, hl>>
     ELSE BeginSelect(r) /\ UNCHANGED resp
  /\ IF len > 0 /\ len <= MaxBodySize /\ parseOk /\ m # "" /\ corsEnabled
       THEN /\ reqOrigin' = [reqOrigin EXCEPT ![r] = origin]
            /\ reqMethod' = [reqMethod EXCEPT ![r] = m]
            /\ acao' = [acao EXCEPT ![r] =
                 IF handleCORS(corsEnabled, allowedOrigins, origin, m)
                   THEN allowedOrigin(allowedOrigins, origin) ELSE @]
       ELSE UNCHANGED <<reqOrigin, reqMethod, acao>>
  /\ UNCHANGED <<allowedOrigins, histVars, timeVars>>
  /\ UNCHANGED <<lifeVars, lbVars, up, disp, out, acq, rel, relUp, marked, upgraded>>
  /\ UNCHANGED <<auxVars, wsVars>>

\* HandleHTTPProxy up to the call of GetUpstream: net/http has parsed the request.
HandleHTTPProxy(r, len, m, origin) ==
  /\ CanArrive(r)
  /\ poolRole = "lb"
  /\ path' = [path EXCEPT ![r] = "http"]
  /\ big' = [big EXCEPT ![r] = len > MaxBodySize]
  /\ preflight' = [preflight EXCEPT ![r] =
       len <= MaxBodySize /\ IsPreflight(corsEnabled, allowedOrigins, origin, m)]
  /\ BeginSelect(r)
  /\ UNCHANGED <<extVars, lifeVars, lbVars, up, disp, out, resp, acq, rel, relUp, marked, upgraded>>
  /\ UNCHANGED <<auxVars, wsVars>>

\* HTTP2HTTP3Server.proxyRequest up to the call of GetUpstream.
proxyRequest(r, len, m, origin) ==
  /\ CanArrive(r)
  /\ poolRole = "lb"
  /\ path' = [path EXCEPT ![r] = "h2"]
  /\ big' = [big EXCEPT ![r] = len > MaxBodySize]
  /\ preflight' = [preflight EXCEPT ![r] =
       len <= MaxBodySize /\ IsPreflight(corsEnabled, allowedOrigins, origin, m)]
  /\ BeginSelect(r)
  /\ UNCHANGED <<extVars, lifeVars, lbVars, up, disp, out, resp, acq, rel, relUp, marked, upgraded>>
  /\ UNCHANGED <<auxVars, wsVars>>

\* WebSocketProxy.HandleWebSocket up to the call of GetUpstream.
HandleWebSocket(r) ==
  /\ CanArrive(r)
  /\ poolRole = "wsLB"
  /\ path' = [path EXCEPT ![r] = "ws"]
  /\ BeginSelect(r)
  /\ UNCHANGED <<extVars, lifeVars, lbVars, big, preflight, up, disp, out, resp, acq, rel, relUp, marked, upgraded>>
  /\ UNCHANGED <<auxVars, wsVars>>

\* ------------------------------------------------------------ GetUpstream
\* One iteration of GetUpstream's loop: an atomic load of one health flag.
ScanUpstream(r) ==
  /\ pc[r] = "select"
  /\ idx[r] <= Len(upstreams)
  /\ hl' = [hl EXCEPT ![r] = AppendIfHealthy(@, idx[r], Healthy[idx[r]])]
  /\ idx' = [idx EXCEPT ![r] = @ + 1]
  /\ UNCHANGED <<extVars, lifeVars, lbVars, pc, path, big, preflight, up, disp, out, resp, acq, rel, relUp, marked, upgraded>>
  /\ UNCHANGED <<auxVars, wsVars>>

\* Mutant: a nil upstream is answered 502 Bad Gateway.
SelectUpstream_badGateway(r) ==
  /\ pc[r] = "select"
  /\ idx[r] > Len(upstreams)
  /\ LET got == GetUpstream(upstreams, method, hl[r], Connections, current)
     IN  /\ current' = got.cur
         /\ up' = [up EXCEPT ![r] = got.up]
         /\ ticket' = [ticket EXCEPT ![r] = IF got.cur # current THEN got.cur ELSE @]
         /\ IF got.up = None
              THEN Respond(r, StatusBadGateway, "Bad Gateway")
              ELSE pc' = [pc EXCEPT ![r] = "acquire"] /\ UNCHANGED resp
  /\ hl' = [hl EXCEPT ![r] = <<>>]
  /\ idx' = [idx EXCEPT ![r] = 0]
  /\ UNCHANGED <<corsVars, attempts, timeVars>>
  /\ UNCHANGED <<lifeVars, poolRole, upstreams, method, Healthy, Connections, corsEnabled,
                 path, big, preflight, disp, out, acq, rel, relUp, marked, upgraded>>
  /\ UNCHANGED <<auxVars, wsVars>>

\* The rest of GetUpstream and the caller's nil check: 503 on nil.
SelectUpstream(r) ==
  /\ pc[r] = "select"
  /\ idx[r] > Len(upstreams)
  /\ LET got == GetUpstream(upstreams, method, hl[r], Connections, current)
     IN  /\ current' = got.cur
         /\ up' = [up EXCEPT ![r] = got.up]
         /\ ticket' = [ticket EXCEPT ![r] = IF got.cur # current THEN got.cur ELSE @]
         /\ IF got.up = None
              THEN Respond(r, StatusServiceUnavailable, "Service Unavailable")
              ELSE pc' = [pc EXCEPT ![r] = "acquire"] /\ UNCHANGED resp
  /\ hl' = [hl EXCEPT ![r] = <<>>]
  /\ idx' = [idx EXCEPT ![r] = 0]
  /\ UNCHANGED <<corsVars, attempts, timeVars>>
  /\ UNCHANGED <<lifeVars, poolRole, upstreams, method, Healthy, Connections, corsEnabled,
                 path, big, preflight, disp, out, acq, rel, relUp, marked, upgraded>>
  /\ UNCHANGED <<auxVars, wsVars>>

\* IncreaseConnections(upstream); the deferred DecreaseConnections is Return.
Acquire(r) ==
  /\ pc[r] = "acquire"
  /\ Connections' = IncreaseConnections(Connections, up[r])
  /\ acq' = [acq EXCEPT ![r] = @ + 1]
  /\ pc' = [pc EXCEPT ![r] = IF path[r] = "ws" THEN "upgrade" ELSE "dispatch"]
  /\ UNCHANGED <<extVars, lifeVars, poolRole, upstreams, method, current, Healthy, corsEnabled,
                 path, big, preflight, hl, idx, up, disp, out, resp, rel, relUp, marked, upgraded>>
  /\ UNCHANGED <<auxVars, wsVars>>

\* ------------------------------------------------------------- dispatching
\* Mutant: a retry goes to the backend after the selected one.
forwardRequest_reselect(r, o) ==
  /\ pc[r] = "dispatch"
  /\ path[r] = "gnet"
  /\ disp[r] < HotMaxRetries
  /\ disp' = [disp EXCEPT ![r] = @ + 1]
  /\ attempts' = [attempts EXCEPT ![r] =
       Append(@, IF disp[r] = 0 THEN up[r] ELSE (up[r] % Len(upstreams)) + 1)]
  /\ out' = [out EXCEPT ![r] = o]
  /\ IF o = "ok"
       THEN /\ pc' = [pc EXCEPT ![r] = "return"]
            /\ UNCHANGED <<Healthy, marked>>
       ELSE /\ IF disp[r] = HotMaxRetries - 1
                 THEN /\ Healthy' = MarkUnhealthy(Healthy, up[r])
                      /\ marked' = [marked EXCEPT ![r] = TRUE]
                 ELSE UNCHANGED <<Healthy, marked>>
            /\ pc' = [pc EXCEPT ![r] = IF disp[r] + 1 < HotMaxRetries THEN "dispatch" ELSE "return"]
  /\ UNCHANGED <<corsVars, ticket, timeVars, lifeVars, poolRole, upstreams, method, current, Connections, corsEnabled,
                 path, big, preflight, hl, idx, up, resp, acq, rel, relUp, upgraded>>
  /\ UNCHANGED <<auxVars, wsVars>>

\* forwardRequest's loop, one iteration: client.Do, then the error handling.
forwardRequest(r, o) ==
  /\ pc[r] = "dispatch"
  /\ path[r] = "gnet"
  /\ disp[r] < HotMaxRetries
  /\ disp' = [disp EXCEPT ![r] = @ + 1]
  /\ attempts' = [attempts EXCEPT ![r] = Append(@, up[r])]
  /\ out' = [out EXCEPT ![r] = o]
  /\ IF o = "ok"
       THEN /\ pc' = [pc EXCEPT ![r] = "return"]
            /\ UNCHANGED <<Healthy, marked>>
       ELSE /\ IF disp[r] = HotMaxRetries - 1
                 THEN /\ Healthy' = MarkUnhealthy(Healthy, up[r])
                      /\ marked' = [marked EXCEPT ![r] = TRUE]
                 ELSE UNCHANGED <<Healthy, marked>>
            /\ pc' = [pc EXCEPT ![r] = IF disp[r] + 1 < HotMaxRetries THEN "dispatch" ELSE "return"]
  /\ UNCHANGED <<corsVars, ticket, timeVars, lifeVars, poolRole, upstreams, method, current, Connections, corsEnabled,
                 path, big, preflight, hl, idx, up, resp, acq, rel, relUp, upgraded>>
  /\ UNCHANGED <<auxVars, wsVars>>

\* http.NewRequestWithContext fails: 500, no dispatch.
BuildRequestFails(r) ==
  /\ pc[r] = "dispatch"
  /\ path[r] \in {"http", "h2"}
  /\ disp[r] = 0
  /\ out' = [out EXCEPT ![r] = "buildfail"]
  /\ pc' = [pc EXCEPT ![r] = "return"]
  /\ UNCHANGED <<extVars, lifeVars, lbVars, path, big, preflight, hl, idx, up, disp, resp, acq, rel, relUp, marked, upgraded>>
  /\ UNCHANGED <<auxVars, wsVars>>

\* Mutant: the loop allows one attempt more.
HandleHTTPProxyDo_extraAttempt(r, o) ==
  /\ pc[r] = "dispatch"
  /\ path[r] = "http"
  /\ o # "afterhdr"
  /\ disp[r] <= StdMaxRetries + 1
  /\ disp' = [disp EXCEPT ![r] = @ + 1]
  /\ attempts' = [attempts EXCEPT ![r] = Append(@, up[r])]
  /\ out' = [out EXCEPT ![r] = o]
  /\ pc' = [pc EXCEPT ![r] = IF o # "ok" /\ disp[r] < StdMaxRetries + 1 THEN "dispatch" ELSE "return"]
  /\ UNCHANGED <<corsVars, ticket, timeVars, lifeVars, lbVars, path, big, preflight, hl, idx, up, resp, acq, rel, relUp, marked, upgraded>>
  /\ UNCHANGED <<auxVars, wsVars>>

\* HandleHTTPProxy's retry loop, one iteration: client.Do returns once the
\* response headers are in, so its errors precede them.
HandleHTTPProxyDo(r, o) ==
  /\ pc[r] = "dispatch"
  /\ path[r] = "http"
  /\ o # "afterhdr"
  /\ disp[r] <= StdMaxRetries
  /\ disp' = [disp EXCEPT ![r] = @ + 1]
  /\ attempts' = [attempts EXCEPT ![r] = Append(@, up[r])]
  /\ out' = [out EXCEPT ![r] = o]
  /\ pc' = [pc EXCEPT ![r] = IF o # "ok" /\ disp[r] < StdMaxRetries THEN "dispatch" ELSE "return"]
  /\ UNCHANGED <<corsVars, ticket, timeVars, lifeVars, lbVars, path, big, preflight, hl, idx, up, resp, acq, rel, relUp, marked, upgraded>>
  /\ UNCHANGED <<auxVars, wsVars>>

\* proxyRequest's single client.Do.
proxyRequestDo(r, o) ==
  /\ pc[r] = "dispatch"
  /\ path[r] = "h2"
  /\ o # "afterhdr"
  /\ disp' = [disp EXCEPT ![r] = @ + 1]
  /\ attempts' = [attempts EXCEPT ![r] = Append(@, up[r])]
  /\ out' = [out EXCEPT ![r] = o]
  /\ pc' = [pc EXCEPT ![r] = "return"]
  /\ UNCHANGED <<corsVars, ticket, timeVars, lifeVars, lbVars, path, big, preflight, hl, idx, up, resp, acq, rel, relUp, marked, upgraded>>
  /\ UNCHANGED <<auxVars, wsVars>>

\* upgrader.Upgrade: on failure gorilla answers the client and the handler returns.
Upgrade(r, ok) ==
  /\ pc[r] = "upgrade"
  /\ IF ok
       THEN /\ upgraded' = [upgraded EXCEPT ![r] = TRUE]
            /\ resp' = [resp EXCEPT ![r] = [status |-> StatusSwitchingProtocols, body |-> ""]]
            /\ pc' = [pc EXCEPT ![r] = "dial"]
            /\ UNCHANGED out
       ELSE /\ out' = [out EXCEPT ![r] = "upgradefail"]
            /\ resp' = [resp EXCEPT ![r] = [status |-> StatusBadRequest, body |-> "Bad Request"]]
            /\ pc' = [pc EXCEPT ![r] = "return"]
            /\ UNCHANGED upgraded
  /\ clientConn' = [clientConn EXCEPT ![r] = IF ok THEN "open" ELSE @]
  /\ UNCHANGED <<extVars, lifeVars, lbVars, path, big, preflight, hl, idx, up, disp, acq, rel, relUp, marked>>
  /\ UNCHANGED <<auxVars, upstreamConn, closeFrame, task, errorChan, held, wire, rd, wr>>

\* Mutant: a failed dial returns without writing a close frame.
Dial_noCloseFrame(r, ok) ==
  /\ pc[r] = "dial"
  /\ disp' = [disp EXCEPT ![r] = @ + 1]
  /\ attempts' = [attempts EXCEPT ![r] = Append(@, up[r])]
  /\ IF ok
       THEN /\ out' = [out EXCEPT ![r] = "ok"]
            /\ upstreamConn' = [upstreamConn EXCEPT ![r] = "open"]
            /\ pc' = [pc EXCEPT ![r] = "relay"]
            /\ UNCHANGED <<resp, closeFrame>>
       ELSE /\ out' = [out EXCEPT ![r] = "refused"]
            /\ UNCHANGED closeFrame
            /\ resp' = [resp EXCEPT ![r] = [status |-> StatusSwitchingProtocols,
                                            body |-> "Upstream connection failed"]]
            /\ pc' = [pc EXCEPT ![r] = "return"]
            /\ UNCHANGED upstreamConn
  /\ UNCHANGED <<corsVars, ticket, timeVars, lifeVars, lbVars, path, big, preflight, hl, idx, up, acq, rel, relUp, marked, upgraded>>
  /\ UNCHANGED <<auxVars, clientConn, task, errorChan, held, wire, rd, wr>>

\* websocket.DefaultDialer.Dial; on failure a close frame goes to the client.
Dial(r, ok) ==
  /\ pc[r] = "dial"
  /\ disp' = [disp EXCEPT ![r] = @ + 1]
  /\ attempts' = [attempts EXCEPT ![r] = Append(@, up[r])]
  /\ IF ok
       THEN /\ out' = [out EXCEPT ![r] = "ok"]
            /\ upstreamConn' = [upstreamConn EXCEPT ![r] = "open"]
            /\ pc' = [pc EXCEPT ![r] = "relay"]
            /\ UNCHANGED <<resp, closeFrame>>
       ELSE /\ out' = [out EXCEPT ![r] = "refused"]
            /\ closeFrame' = [closeFrame EXCEPT ![r] =
                 [code |-> ClosePolicyViolation, reason |-> "Upstream connection failed"]]
            /\ resp' = [resp EXCEPT ![r] = [status |-> StatusSwitchingProtocols,
                                            body |-> "Upstream connection failed"]]
            /\ pc' = [pc EXCEPT ![r] = "return"]
            /\ UNCHANGED upstreamConn
  /\ UNCHANGED <<corsVars, ticket, timeVars, lifeVars, lbVars, path, big, preflight, hl, idx, up, acq, rel, relUp, marked, upgraded>>
  /\ UNCHANGED <<auxVars, clientConn, task, errorChan, held, wire, rd, wr>>

\* The handler receives the first error of either relay direction (the relay
\* between the dial and this receive taken as one step).
RelayEnd(r) ==
  /\ pc[r] = "relay"
  /\ pc' = [pc EXCEPT ![r] = "return"]
  /\ UNCHANGED <<extVars, lifeVars, lbVars, path, big, preflight, hl, idx, up, disp, out, resp, acq, rel, relUp, marked, upgraded>>
  /\ UNCHANGED <<auxVars, wsVars>>

\* -------------------------------------------------------------- the relay
\* Frames a peer can send while the session is up. ReadMessage returns text
\* and binary messages; ping and pong frames are consumed by the connection's
\* handlers inside ReadMessage; a close frame makes ReadMessage return an error.
MaxFrames == 2
\* The WebSocket timeout and the length of a run, in clock ticks.
WsTimeout == 2
MaxTime == 3
DataTypes == {"text", "binary"}
ControlTypes == {"ping", "pong"}
Payloads == {"a", "b"}
WireFrames == [type : DataTypes \cup ControlTypes, data : Payloads]

\* proxyMessages(src, dst, direction, errorChan): the connection it reads.
SrcConn(r, d) == IF d = "client->upstream" THEN clientConn[r] ELSE upstreamConn[r]
DstConn(r, d) == IF d = "client->upstream" THEN upstreamConn[r] ELSE clientConn[r]
FramesSeen(r) == Len(wire[r]["client->upstream"]) + Len(wire[r]["upstream->client"])

\* Mutant: a read deadline set for one direction is set for both.
SetReadDeadline_bothDirections(dl, r, d) ==
  IF wsTimeout > 0 THEN [dl EXCEPT ![r] = [e \in Dirs |-> now + wsTimeout]] ELSE dl

\* src.SetReadDeadline(time.Now().Add(WebSocketTimeout)) at the top of
\* proxyMessages' loop, made only with a positive timeout.
SetReadDeadline(dl, r, d) ==
  IF wsTimeout > 0 THEN [dl EXCEPT ![r][d] = now + wsTimeout] ELSE dl

\* HandleWebSocket after a successful dial: the deadlines are set on both
\* connections, errorChan is made and the two proxyMessages goroutines are
\* started, each setting the deadline of the connection it reads; the handler
\* then waits on errorChan.
StartRelay(r) ==
  /\ pc[r] = "relay"
  /\ \A d \in Dirs : task[r][d] = "none"
  /\ task' = [task EXCEPT ![r] = [d \in Dirs |-> "read"]]
  /\ deadline' = SetReadDeadline(SetReadDeadline(deadline, r, "client->upstream"),
                                 r, "upstream->client")
  /\ UNCHANGED <<corsVars, histVars, wsTimeout, now>>
  /\ UNCHANGED <<lifeVars, lbVars, reqVars, auxVars, clientConn, upstreamConn, closeFrame,
                 errorChan, held, wire, rd, wr>>

\* The clock advances.  A ReadMessage blocked on a connection returns a
\* timeout error when the connection's read deadline is reached, so time does
\* not pass a deadline while its reader is still waiting.
Tick ==
  /\ wsTimeout > 0
  /\ now < MaxTime
  /\ \A r \in Requests, d \in Dirs : task[r][d] = "read" => now < deadline[r][d]
  /\ now' = now + 1
  /\ UNCHANGED <<corsVars, histVars, wsTimeout, deadline>>
  /\ UNCHANGED <<lifeVars, lbVars, reqVars, auxVars, wsVars>>

\* src.ReadMessage takes a frame from the peer: a data message is returned to
\* the loop, a ping or pong is handled inside and the call keeps reading.
RelayRead(r, d, f) ==
  /\ task[r][d] = "read"
  /\ SrcConn(r, d) = "open"
  /\ wsTimeout > 0 => now < deadline[r][d]
  /\ FramesSeen(r) < MaxFrames
  /\ wire' = [wire EXCEPT ![r][d] = Append(@, f)]
  /\ IF f.type \in DataTypes
       THEN /\ rd' = [rd EXCEPT ![r][d] = Append(@, f)]
            /\ held' = [held EXCEPT ![r][d] = f]
            /\ task' = [task EXCEPT ![r][d] = "write"]
       ELSE UNCHANGED <<rd, held, task>>
  /\ UNCHANGED <<extVars, lifeVars, lbVars, reqVars, auxVars, clientConn, upstreamConn, closeFrame, errorChan, wr>>

\* src.ReadMessage returns an error: a close frame or EOF from the peer, the
\* read deadline, or the connection closed by the handler.
RelayReadError(r, d) ==
  /\ task[r][d] = "read"
  /\ task' = [task EXCEPT ![r][d] = "publish"]
  /\ UNCHANGED <<extVars, lifeVars, lbVars, reqVars, auxVars, clientConn, upstreamConn, closeFrame,
                 errorChan, held, wire, rd, wr>>

\* Mutant: every message is written as a text message.
RelayWrite_asText(r, d, ok) ==
  /\ task[r][d] = "write"
  /\ DstConn(r, d) # "open" => ~ok
  /\ IF ok
       THEN /\ wr' = [wr EXCEPT ![r][d] = Append(@, [type |-> "text", data |-> held[r][d].data])]
            /\ task' = [task EXCEPT ![r][d] = "read"]
            /\ deadline' = SetReadDeadline(deadline, r, d)
       ELSE /\ task' = [task EXCEPT ![r][d] = "publish"]
            /\ UNCHANGED <<wr, deadline>>
  /\ held' = [held EXCEPT ![r][d] = NoMessage]
  /\ UNCHANGED <<corsVars, histVars, wsTimeout, now>>
  /\ UNCHANGED <<lifeVars, lbVars, reqVars, auxVars, clientConn, upstreamConn, closeFrame,
                 errorChan, wire, rd>>

\* dst.WriteMessage(messageType, message): the message goes out as read, or
\* the write fails (always so once the handler has closed dst).
RelayWrite(r, d, ok) ==
  /\ task[r][d] = "write"
  /\ DstConn(r, d) # "open" => ~ok
  /\ IF ok
       THEN /\ wr' = [wr EXCEPT ![r][d] = Append(@, held[r][d])]
            /\ task' = [task EXCEPT ![r][d] = "read"]
            /\ deadline' = SetReadDeadline(deadline, r, d)
       ELSE /\ task' = [task EXCEPT ![r][d] = "publish"]
            /\ UNCHANGED <<wr, deadline>>
  /\ held' = [held EXCEPT ![r][d] = NoMessage]
  /\ UNCHANGED <<corsVars, histVars, wsTimeout, now>>
  /\ UNCHANGED <<lifeVars, lbVars, reqVars, auxVars, clientConn, upstreamConn, closeFrame,
                 errorChan, wire, rd>>

\* errorChan <- err; return. The send blocks while the channel is full.
RelayPublish(r, d) ==
  /\ task[r][d] = "publish"
  /\ Len(errorChan[r]) < ErrorChanCap
  /\ errorChan' = [errorChan EXCEPT ![r] = Append(@, d)]
  /\ task' = [task EXCEPT ![r][d] = "exited"]
  /\ UNCHANGED <<extVars, lifeVars, lbVars, reqVars, auxVars, clientConn, upstreamConn, closeFrame,
                 held, wire, rd, wr>>

\* err = <-errorChan: the handler takes the first error and goes on to return.
RelayReceive(r) ==
  /\ pc[r] = "relay"
  /\ errorChan[r] # <<>>
  /\ errorChan' = [errorChan EXCEPT ![r] = Tail(@)]
  /\ pc' = [pc EXCEPT ![r] = "return"]
  /\ UNCHANGED <<extVars, lifeVars, lbVars, path, big, preflight, hl, idx, up, disp, out, resp, acq, rel, relUp,
                 marked, upgraded, auxVars, clientConn, upstreamConn, closeFrame, task,
                 held, wire, rd, wr>>

\* ----------------------------------------------------------------- return
\* Conn.Close on a connection the handler holds.
Closed(c) == IF c = "open" THEN "closed" ELSE c

\* The response the handler writes when it leaves its dispatch.
FinalResponse(p, o, writeOk, old) ==
  IF p = "ws" THEN old
  ELSE IF o = "ok"
    THEN IF p = "gnet" /\ ~writeOk THEN NoResponse ELSE [status |-> StatusOK, body |-> "upstream"]
  ELSE IF o = "buildfail"
    THEN [status |-> StatusInternalServerError, body |-> "Internal Server Error"]
  ELSE [status |-> StatusBadGateway, body |-> "Bad Gateway"]

\* sendResponse and HandleHTTPProxy stamp the header on the upstream's
\* response whenever CORS is enabled; error responses and the HTTP/2-3
\* handler's responses carry none.
FinalAllowOrigin(p, o, writeOk, enabled) ==
  IF enabled /\ o = "ok" /\ ((p = "gnet" /\ writeOk) \/ p = "http") THEN "*" ELSE ""

\* Mutant: the release is an explicit call on the success path only.
Return_releaseOnSuccessOnly(r, writeOk) ==
  /\ pc[r] = "return"
  /\ (writeOk \/ (path[r] = "gnet" /\ out[r] = "ok"))
  /\ resp' = [resp EXCEPT ![r] = FinalResponse(path[r], out[r], writeOk, @)]
  /\ acao' = [acao EXCEPT ![r] = FinalAllowOrigin(path[r], out[r], writeOk, corsEnabled)]
  /\ UNCHANGED <<allowedOrigins, reqOrigin, reqMethod, histVars, timeVars>>
  /\ IF out[r] = "ok"
       THEN /\ Connections' = DecreaseConnections(Connections, up[r])
            /\ rel' = [rel EXCEPT ![r] = @ + 1]
            /\ relUp' = [relUp EXCEPT ![r] = up[r]]
       ELSE UNCHANGED <<Connections, rel, relUp>>
  /\ pc' = [pc EXCEPT ![r] = "done"]
  /\ UNCHANGED <<lifeVars, poolRole, upstreams, method, current, Healthy, corsEnabled,
                 path, big, preflight, hl, idx, up, disp, out, acq, marked, upgraded>>
  /\ clientConn' = [clientConn EXCEPT ![r] = Closed(@)]
  /\ upstreamConn' = [upstreamConn EXCEPT ![r] = Closed(@)]
  /\ UNCHANGED <<auxVars, closeFrame, task, errorChan, held, wire, rd, wr>>

\* Mutant: the handler returns without closing its connections.
Return_leavesConnsOpen(r, writeOk) ==
  /\ pc[r] = "return"
  /\ (writeOk \/ (path[r] = "gnet" /\ out[r] = "ok"))
  /\ resp' = [resp EXCEPT ![r] = FinalResponse(path[r], out[r], writeOk, @)]
  /\ acao' = [acao EXCEPT ![r] = FinalAllowOrigin(path[r], out[r], writeOk, corsEnabled)]
  /\ UNCHANGED <<allowedOrigins, reqOrigin, reqMethod, histVars, timeVars>>
  /\ Connections' = DecreaseConnections(Connections, up[r])
  /\ rel' = [rel EXCEPT ![r] = @ + 1]
  /\ relUp' = [relUp EXCEPT ![r] = up[r]]
  /\ pc' = [pc EXCEPT ![r] = "done"]
  /\ UNCHANGED <<lifeVars, poolRole, upstreams, method, current, Healthy, corsEnabled,
                 path, big, preflight, hl, idx, up, disp, out, acq, marked, upgraded>>
  /\ UNCHANGED <<auxVars, wsVars>>

\* The handler writes its response and returns: the deferred upstreamConn.Close,
\* clientConn.Close and DecreaseConnections run.
Return(r, writeOk) ==
  /\ pc[r] = "return"
  /\ (writeOk \/ (path[r] = "gnet" /\ out[r] = "ok"))
  /\ resp' = [resp EXCEPT ![r] = FinalResponse(path[r], out[r], writeOk, @)]
  /\ acao' = [acao EXCEPT ![r] = FinalAllowOrigin(path[r], out[r], writeOk, corsEnabled)]
  /\ UNCHANGED <<allowedOrigins, reqOrigin, reqMethod, histVars, timeVars>>
  /\ Connections' = DecreaseConnections(Connections, up[r])
  /\ rel' = [rel EXCEPT ![r] = @ + 1]
  /\ relUp' = [relUp EXCEPT ![r] = up[r]]
  /\ pc' = [pc EXCEPT ![r] = "done"]
  /\ UNCHANGED <<lifeVars, poolRole, upstreams, method, current, Healthy, corsEnabled,
                 path, big, preflight, hl, idx, up, disp, out, acq, marked, upgraded>>
  /\ clientConn' = [clientConn EXCEPT ![r] = Closed(@)]
  /\ upstreamConn' = [upstreamConn EXCEPT ![r] = Closed(@)]
  /\ UNCHANGED <<auxVars, closeFrame, task, errorChan, held, wire, rd, wr>>

\* ------------------------------------------------------------ health check
\* The goroutine performHealthCheck starts per upstream skips the probe for
\* these schemes.
IsWebSocketScheme(scheme) == scheme = "ws" \/ scheme = "wss"

\* One probe of performHealthCheck: 200 marks healthy, anything else unhealthy.
performHealthCheck(b, probeOk) ==
  /\ b \in Backends
  /\ Healthy' = IF IsWebSocketScheme(upstreams[b].Scheme) \/ probeOk
                  THEN MarkHealthy(Healthy, b) ELSE MarkUnhealthy(Healthy, b)
  /\ Healthy' # Healthy
  /\ UNCHANGED <<extVars, lifeVars, poolRole, upstreams, method, current, Connections, corsEnabled, reqVars>>
  /\ UNCHANGED <<auxVars, wsVars>>

\* The ticker fires and performHealthCheck starts one goroutine per upstream;
\* the probes of a round end within the client's 5 s timeout, before the next
\* 30 s tick.
HealthTick ==
  /\ pending = {}
  /\ Backends # {}
  /\ pending' = Backends
  /\ UNCHANGED <<extVars, lifeVars, lbVars, reqVars, trace, lastProbe, wsVars>>

\* Mutant: backends of every scheme are probed.
HealthProbe_probesAll(b, res) ==
  /\ b \in pending
  /\ lastProbe' = [lastProbe EXCEPT ![b] = res]
  /\ Healthy' = IF res.err \/ res.status # StatusOK
                  THEN MarkUnhealthy(Healthy, b) ELSE MarkHealthy(Healthy, b)
  /\ pending' = pending \ {b}
  /\ UNCHANGED <<extVars, lifeVars, poolRole, upstreams, method, current, Connections, corsEnabled, reqVars,
                 trace, wsVars>>

\* The goroutine of one upstream: ws and wss upstreams are marked healthy
\* without a probe, the others by the result of client.Get.
HealthProbe(b, res) ==
  /\ b \in pending
  /\ IF IsWebSocketScheme(upstreams[b].Scheme)
       THEN /\ Healthy' = MarkHealthy(Healthy, b)
            /\ UNCHANGED lastProbe
       ELSE /\ lastProbe' = [lastProbe EXCEPT ![b] = res]
            /\ Healthy' = IF res.err \/ res.status # StatusOK
                            THEN MarkUnhealthy(Healthy, b) ELSE MarkHealthy(Healthy, b)
  /\ pending' = pending \ {b}
  /\ UNCHANGED <<extVars, lifeVars, poolRole, upstreams, method, current, Connections, corsEnabled, reqVars,
                 trace, wsVars>>

\* ------------------------------------------------------------------- Next
Lens == 0..(MaxBodySize + 1)
PlainLens == 1..MaxBodySize

\* Concurrent requests; the standard handlers get well-sized GET requests.
Next ==
  \/ \E r \in Requests, len \in Lens, parseOk \in BOOLEAN, m \in HttpMethods \cup {""}, origin \in Origins :
       HandleTraffic(r, len, parseOk, m, origin)
  \/ \E r \in Requests, len \in PlainLens, origin \in Origins : HandleHTTPProxy(r, len, "GET", origin)
  \/ \E r \in Requests, len \in PlainLens, origin \in Origins : proxyRequest(r, len, "GET", origin)
  \/ \E r \in Requests : HandleWebSocket(r)
  \/ \E r \in Requests : ScanUpstream(r)
  \/ \E r \in Requests : SelectUpstream(r)
  \/ \E r \in Requests : Acquire(r)
  \/ \E r \in Requests, o \in DoOutcomes : forwardRequest(r, o)
  \/ \E r \in Requests : BuildRequestFails(r)
  \/ \E r \in Requests, o \in DoOutcomes : HandleHTTPProxyDo(r, o)
  \/ \E r \in Requests, o \in DoOutcomes : proxyRequestDo(r, o)
  \/ \E r \in Requests, ok \in BOOLEAN : Upgrade(r, ok)
  \/ \E r \in Requests, ok \in BOOLEAN : Dial(r, ok)
  \/ \E r \in Requests : RelayEnd(r)
  \/ \E r \in Requests, writeOk \in BOOLEAN : Return(r, writeOk)
  \/ \E b \in 1..NumBackends, probeOk \in BOOLEAN : performHealthCheck(b, probeOk)

Spec == Init /\ [][Next]_vars

\* One request, every input the handlers can be given.
NextSingle ==
  \/ \E len \in Lens, parseOk \in BOOLEAN, m \in HttpMethods \cup {""}, origin \in Origins :
       HandleTraffic(1, len, parseOk, m, origin)
  \/ \E len \in Lens \ {0}, m \in HttpMethods, origin \in Origins : HandleHTTPProxy(1, len, m, origin)
  \/ \E len \in Lens \ {0}, m \in HttpMethods, origin \in Origins : proxyRequest(1, len, m, origin)
  \/ HandleWebSocket(1)
  \/ ScanUpstream(1)
  \/ SelectUpstream(1)
  \/ Acquire(1)
  \/ \E o \in DoOutcomes : forwardRequest(1, o)
  \/ BuildRequestFails(1)
  \/ \E o \in DoOutcomes : HandleHTTPProxyDo(1, o)
  \/ \E o \in DoOutcomes : proxyRequestDo(1, o)
  \/ \E ok \in BOOLEAN : Upgrade(1, ok)
  \/ \E ok \in BOOLEAN : Dial(1, ok)
  \/ RelayEnd(1)
  \/ \E writeOk \in BOOLEAN : Return(1, writeOk)
  \/ \E b \in 1..NumBackends, probeOk \in BOOLEAN : performHealthCheck(b, probeOk)

SpecSingle == InitSingle /\ [][NextSingle]_vars

\* Concurrent callers of GetUpstream through the HTTP/2-3 handler, with probes.
NextSel ==
  \/ \E r \in Requests, len \in PlainLens, origin \in Origins : proxyRequest(r, len, "GET", origin)
  \/ \E r \in Requests : ScanUpstream(r)
  \/ \E r \in Requests : SelectUpstream(r)
  \/ \E r \in Requests : Acquire(r)
  \/ \E r \in Requests, o \in DoOutcomes : proxyRequestDo(r, o)
  \/ \E r \in Requests : Return(r, TRUE)
  \/ \E b \in 1..NumBackends, probeOk \in BOOLEAN : performHealthCheck(b, probeOk)

SpecSel == InitSel /\ [][NextSel]_vars

\* ------------------------------------------------------- the CORS filter
\* CORS enabled, every policy of OriginLists, requests on the event-loop path
\* and on the standard handler while probes change the pool.
InitCors ==
  /\ InitPoolCfg({"lb"}, {"round_robin"}, {NumBackends}, 1, {"http"}, OriginLists, {0})
  /\ corsEnabled

NextCors ==
  \/ \E r \in Requests, len \in PlainLens, m \in HttpMethods, o \in Origins :
       HandleTraffic(r, len, TRUE, m, o)
  \/ \E r \in Requests, len \in PlainLens, m \in HttpMethods, o \in Origins :
       HandleHTTPProxy(r, len, m, o)
  \/ \E r \in Requests : ScanUpstream(r)
  \/ \E r \in Requests : SelectUpstream(r)
  \/ \E r \in Requests : Acquire(r)
  \/ \E r \in Requests, o \in {"ok", "refused"} : forwardRequest(r, o)
  \/ \E r \in Requests, o \in {"ok", "refused"} : HandleHTTPProxyDo(r, o)
  \/ \E r \in Requests, writeOk \in BOOLEAN : Return(r, writeOk)
  \/ \E b \in 1..NumBackends, probeOk \in BOOLEAN : performHealthCheck(b, probeOk)

SpecCors == InitCors /\ [][NextCors]_vars

\* ------------------------------------------------- the selection counter
\* Concurrent requests on the event-loop path, every policy and weight
\* vector, every input HandleTraffic rejects or answers itself.
InitCtr == InitPool({"lb"}, Methods, 0..NumBackends, MaxWeight, {"http"})

NextCtr ==
  \/ \E r \in Requests, len \in Lens, parseOk \in BOOLEAN, m \in HttpMethods \cup {""}, o \in Origins :
       HandleTraffic(r, len, parseOk, m, o)
  \/ \E r \in Requests : ScanUpstream(r)
  \/ \E r \in Requests : SelectUpstream(r)
  \/ \E r \in Requests : Acquire(r)
  \/ \E r \in Requests, o \in {"ok", "refused"} : forwardRequest(r, o)
  \/ \E r \in Requests : Return(r, TRUE)

SpecCtr == InitCtr /\ [][NextCtr]_vars

\* ------------------------------------------------------ one relay session
InitRelay == InitPool({"wsLB"}, {"round_robin"}, 0..NumBackends, MaxWeight, {"http", "ws"})

\* One WebSocket request from its arrival to the end of both relay goroutines.
NextRelay ==
  \/ HandleWebSocket(1)
  \/ ScanUpstream(1)
  \/ SelectUpstream(1)
  \/ Acquire(1)
  \/ \E ok \in BOOLEAN : Upgrade(1, ok)
  \/ \E ok \in BOOLEAN : Dial(1, ok)
  \/ StartRelay(1)
  \/ \E d \in Dirs, f \in WireFrames : RelayRead(1, d, f)
  \/ \E d \in Dirs : RelayReadError(1, d)
  \/ \E d \in Dirs, ok \in BOOLEAN : RelayWrite(1, d, ok)
  \/ \E d \in Dirs : RelayPublish(1, d)
  \/ RelayReceive(1)
  \/ Return(1, TRUE)
  \/ \E b \in 1..NumBackends, probeOk \in BOOLEAN : performHealthCheck(b, probeOk)

SpecRelay == InitRelay /\ [][NextRelay]_vars

\* The Go scheduler runs every runnable goroutine, a channel operation that can
\* proceed does, a write ends (done or failed), and a read on a connection the
\* handler has closed returns an error. A read on an open connection may wait
\* for ever.
RelayFairness ==
  /\ WF_vars(StartRelay(1))
  /\ WF_vars(RelayReceive(1))
  /\ WF_vars(Return(1, TRUE))
  /\ \A d \in Dirs :
       /\ WF_vars(RelayPublish(1, d))
       /\ WF_vars(\E ok \in BOOLEAN : RelayWrite(1, d, ok))
       /\ WF_vars(SrcConn(1, d) = "closed" /\ RelayReadError(1, d))

SpecRelayLive == SpecRelay /\ RelayFairness

\* One session with a positive WebSocket timeout, on a clock.
InitRelayTimed ==
  InitPoolCfg({"wsLB"}, {"round_robin"}, {1}, 1, {"ws"}, {AllowedOrigins}, {WsTimeout})

NextRelayTimed ==
  \/ HandleWebSocket(1)
  \/ ScanUpstream(1)
  \/ SelectUpstream(1)
  \/ Acquire(1)
  \/ Upgrade(1, TRUE)
  \/ Dial(1, TRUE)
  \/ StartRelay(1)
  \/ \E d \in Dirs, f \in WireFrames : RelayRead(1, d, f)
  \/ \E d \in Dirs : RelayReadError(1, d)
  \/ \E d \in Dirs, ok \in BOOLEAN : RelayWrite(1, d, ok)
  \/ \E d \in Dirs : RelayPublish(1, d)
  \/ RelayReceive(1)
  \/ Return(1, TRUE)
  \/ Tick

SpecRelayTimed == InitRelayTimed /\ [][NextRelayTimed]_vars

\* A ReadMessage whose deadline has been reached returns its timeout error.
Expired(r, d) == wsTimeout > 0 /\ task[r][d] = "read" /\ now >= deadline[r][d]

RelayTimedFairness ==
  /\ RelayFairness
  /\ \A d \in Dirs : WF_vars(Expired(1, d) /\ RelayReadError(1, d))

SpecRelayTimedLive == SpecRelayTimed /\ RelayTimedFairness

\* ------------------------------------------------------- health-check rounds
Schemes == {"http", "https", "ws", "wss"}

InitHealth == InitPool({"lb", "wsLB"}, {"round_robin"}, 0..NumBackends, MaxWeight, Schemes)

\* Health-check rounds next to one request on the event-loop path.
NextHealth ==
  \/ HealthTick
  \/ \E b \in 1..NumBackends, res \in ProbeResults : HealthProbe(b, res)
  \/ \E len \in PlainLens, origin \in Origins : HandleTraffic(1, len, TRUE, "GET", origin)
  \/ ScanUpstream(1)
  \/ SelectUpstream(1)
  \/ Acquire(1)
  \/ \E o \in DoOutcomes : forwardRequest(1, o)
  \/ \E writeOk \in BOOLEAN : Return(1, writeOk)

SpecHealth == InitHealth /\ [][NextHealth]_vars

\* ------------------------------------------------- sequential pool calls
\* A caller that uses the pool's methods one after the other: GetUpstream,
\* MarkUnhealthy and MarkHealthy, each call complete before the next starts.
SeqBackends == 3
SeqMaxWeight == 3
MaxSelections == 9
MaxMarks == 2

\* GetUpstream's scan over the whole pool, from position i on.
RECURSIVE ScanFrom(_, _, _)
ScanFrom(h, i, list) ==
  IF i > Len(upstreams) THEN list ELSE ScanFrom(h, i + 1, AppendIfHealthy(list, i, h[i]))

Selections(tr) == {i \in 1..Len(tr) : tr[i].op = "sel"}
Marks(tr) == {i \in 1..Len(tr) : tr[i].op # "sel"}

\* One whole GetUpstream call.
GetUpstreamCall ==
  /\ Cardinality(Selections(trace)) < MaxSelections
  /\ LET got == GetUpstream(upstreams, method, ScanFrom(Healthy, 1, <<>>), Connections, current)
     IN  /\ current' = got.cur
         /\ trace' = Append(trace, [op |-> "sel", b |-> got.up])
  /\ UNCHANGED <<extVars, lifeVars, poolRole, upstreams, method, Healthy, Connections, corsEnabled, reqVars,
                 pending, lastProbe, wsVars>>

\* Mutant: the call has no effect.
MarkUnhealthyCall_ignored(b) ==
  /\ b \in Backends
  /\ Cardinality(Marks(trace)) < MaxMarks
  /\ Healthy[b] = 1
  /\ Healthy' = Healthy
  /\ trace' = Append(trace, [op |-> "down", b |-> b])
  /\ UNCHANGED <<extVars, lifeVars, poolRole, upstreams, method, current, Connections, corsEnabled, reqVars,
                 pending, lastProbe, wsVars>>

\* lb.MarkUnhealthy(upstream) on a backend that is healthy.
MarkUnhealthyCall(b) ==
  /\ b \in Backends
  /\ Cardinality(Marks(trace)) < MaxMarks
  /\ Healthy[b] = 1
  /\ Healthy' = MarkUnhealthy(Healthy, b)
  /\ trace' = Append(trace, [op |-> "down", b |-> b])
  /\ UNCHANGED <<extVars, lifeVars, poolRole, upstreams, method, current, Connections, corsEnabled, reqVars,
                 pending, lastProbe, wsVars>>

\* lb.MarkHealthy(upstream) on a backend that is unhealthy.
MarkHealthyCall(b) ==
  /\ b \in Backends
  /\ Cardinality(Marks(trace)) < MaxMarks
  /\ Healthy[b] = 0
  /\ Healthy' = MarkHealthy(Healthy, b)
  /\ trace' = Append(trace, [op |-> "up", b |-> b])
  /\ UNCHANGED <<extVars, lifeVars, poolRole, upstreams, method, current, Connections, corsEnabled, reqVars,
                 pending, lastProbe, wsVars>>

InitSeq == InitPool({"lb"}, Methods, 1..SeqBackends, SeqMaxWeight, {"http"})

NextSeq ==
  \/ GetUpstreamCall
  \/ \E b \in 1..SeqBackends : MarkUnhealthyCall(b)
  \/ \E b \in 1..SeqBackends : MarkHealthyCall(b)

SpecSeq == InitSeq /\ [][NextSeq]_vars

\* ------------------------------------------------ health-check lifecycle
Alive == {"spawned", "select"}
ActiveCheckers(p) == {g \in Gens : checker[p][g].pc \in Alive}

\* StartHealthCheck: a new ticker, a new channel, a new goroutine, whatever
\* the pool already holds.
StartHealthCheck(p) ==
  LET g == healthTicker[p] + 1 IN
  /\ healthTicker' = [healthTicker EXCEPT ![p] = g]
  /\ shutdownChan' = [shutdownChan EXCEPT ![p] = g]
  /\ checker' = [checker EXCEPT ![p][g] = [pc |-> "spawned", ticker |-> 0, chan |-> 0]]
  /\ UNCHANGED <<tickerStopped, chanClosed, tickBuf, rounds, stops, lateRounds>>

\* close(lb.shutdownChan) on a channel that is already closed panics.
StopPanics(p) == shutdownChan[p] # 0 /\ shutdownChan[p] \in chanClosed[p]

\* StopHealthCheck: stops the ticker the pool holds now and closes the
\* channel it holds now.
StopHealthCheck(p) ==
  /\ tickerStopped' = [tickerStopped EXCEPT ![p] =
       IF healthTicker[p] # 0 THEN @ \cup {healthTicker[p]} ELSE @]
  /\ chanClosed' = [chanClosed EXCEPT ![p] =
       IF shutdownChan[p] # 0 THEN @ \cup {shutdownChan[p]} ELSE @]
  /\ stops' = [stops EXCEPT ![p] = Append(@, IF StopPanics(p) THEN "panic" ELSE "ok")]
  /\ UNCHANGED <<healthTicker, shutdownChan, tickBuf, checker, rounds, lateRounds>>

\* The goroutine enters its select and evaluates lb.healthTicker.C and
\* lb.shutdownChan.  A later StartHealthCheck writes both fields with no
\* synchronisation, so each read returns the value of the goroutine's own
\* start or of any later one.
SeenFrom(x, g) == IF x = 0 THEN g ELSE x

CheckerSelect(p, g, t, c) ==
  /\ checker[p][g].pc = "spawned"
  /\ t \in SeenFrom(checker[p][g].ticker, g)..healthTicker[p]
  /\ c \in SeenFrom(checker[p][g].chan, g)..shutdownChan[p]
  /\ checker' = [checker EXCEPT ![p][g] = [pc |-> "select", ticker |-> t, chan |-> c]]
  /\ UNCHANGED <<healthTicker, shutdownChan, tickerStopped, chanClosed, tickBuf, rounds, stops,
                 lateRounds>>

\* A running ticker delivers a tick into its channel (capacity 1).
TickerFire(p, t) ==
  /\ t \in 1..healthTicker[p]
  /\ t \notin tickerStopped[p]
  /\ t \notin tickBuf[p]
  /\ rounds[p] < MaxRounds
  /\ tickBuf' = [tickBuf EXCEPT ![p] = @ \cup {t}]
  /\ UNCHANGED <<healthTicker, shutdownChan, tickerStopped, chanClosed, checker, rounds, stops,
                 lateRounds>>

\* case <-lb.healthTicker.C: the goroutine runs performHealthCheck and loops.
CheckerTick(p, g) ==
  /\ checker[p][g].pc = "select"
  /\ checker[p][g].ticker \in tickBuf[p]
  /\ rounds[p] < MaxRounds
  /\ tickBuf' = [tickBuf EXCEPT ![p] = @ \ {checker[p][g].ticker}]
  /\ rounds' = [rounds EXCEPT ![p] = @ + 1]
  /\ lateRounds' = [lateRounds EXCEPT ![p] = IF stops[p] # <<>> THEN @ + 1 ELSE @]
  /\ checker' = [checker EXCEPT ![p][g].pc = "spawned"]
  /\ UNCHANGED <<healthTicker, shutdownChan, tickerStopped, chanClosed, stops>>

\* case <-lb.shutdownChan: the goroutine returns.
CheckerExit(p, g) ==
  /\ checker[p][g].pc = "select"
  /\ checker[p][g].chan \in chanClosed[p]
  /\ checker' = [checker EXCEPT ![p][g].pc = "exited"]
  /\ UNCHANGED <<healthTicker, shutdownChan, tickerStopped, chanClosed, tickBuf, rounds, stops,
                 lateRounds>>

\* The owners' calls on one pool: the starts made while the process is
\* constructed (main and NewProxyServer), then the stops made while it shuts
\* down (shutdownServerInstance and ProxyServer.Shutdown, each under recover).
StartCall(p) ==
  /\ healthTicker[p] < MaxStarts
  /\ stops[p] = <<>>
  /\ StartHealthCheck(p)
  /\ UNCHANGED <<extVars, lbVars, reqVars, auxVars, wsVars, supVars>>

StopCall(p) ==
  /\ Len(stops[p]) < MaxStops
  /\ StopHealthCheck(p)
  /\ UNCHANGED <<extVars, lbVars, reqVars, auxVars, wsVars, supVars>>

CheckerStep(p) ==
  /\ \/ \E g \in Gens, t \in Gens, c \in Gens : CheckerSelect(p, g, t, c)
     \/ \E t \in Gens : TickerFire(p, t)
     \/ \E g \in Gens : CheckerTick(p, g)
     \/ \E g \in Gens : CheckerExit(p, g)
  /\ UNCHANGED <<extVars, lbVars, reqVars, auxVars, wsVars, supVars>>

InitHC == InitPool({"lb"}, {"round_robin"}, {NumBackends}, 1, {"http"}) /\ ~corsEnabled

NextHC ==
  \/ StartCall(1)
  \/ StopCall(1)
  \/ CheckerStep(1)

SpecHC == InitHC /\ [][NextHC]_vars

\* ---------------------------------------------------------- the supervisor
\* runServer and the goroutines it starts.  Instance kinds follow
\* MultiServerManager.StartServerInstance: an instance whose name contains
\* "websocket" serves through net/http, any other through gnet.
Kinds == {"gnet", "websocket"}

\* The process is alive: runServer has not returned and no panic escaped.
Running == supPc \notin {"exit", "failed"} /\ ~crashed

\* A StopHealthCheck call under defer/recover: a panic is logged and the
\* caller goes on.
RecoveredStop(i, p) ==
  /\ StopHealthCheck(p)
  /\ recovered' = [recovered EXCEPT ![i] = IF StopPanics(p) THEN @ + 1 ELSE @]

\* createServerInstance, one pass of runServer's creation loop: on an error
\* runServer returns it at once; otherwise NewProxyServer has started the
\* health check of the instance's loadBalancer.
CreateInstance(k, ok) ==
  /\ supPc = "create"
  /\ Len(serverInstances) < NumInstances
  /\ LET i == Len(serverInstances) + 1 IN
       IF ok
         THEN /\ serverInstances' = Append(serverInstances, i)
              /\ kind' = [kind EXCEPT ![i] = k]
              /\ StartHealthCheck(loadBalancer(i))
              /\ UNCHANGED supPc
         ELSE /\ supPc' = "failed"
              /\ UNCHANGED <<serverInstances, kind, hcVars>>
  /\ UNCHANGED <<extVars, lbVars, reqVars, auxVars, wsVars, wg, errChan, cause, msmShutdownChan,
                 gnetStarted, lis, engineSet, engineStop, httpServer, httpClosed, starter,
                 srvTask, lsn, shut, sawEngine, inflight, ctxDone, timedOut, recovered,
                 crashed, shutRuns>>

\* runServer's start loop: wg.Add(1) and one goroutine per instance, then on
\* to the select without waiting for any of them.
StartAll ==
  /\ supPc = "create"
  /\ Len(serverInstances) = NumInstances
  /\ wg' = wg + NumInstances
  /\ starter' = [i \in Instances |-> "spawned"]
  /\ supPc' = "run"
  /\ UNCHANGED <<extVars, lbVars, reqVars, auxVars, wsVars, hcVars, serverInstances, kind, errChan,
                 cause, msmShutdownChan, gnetStarted, lis, engineSet, engineStop, httpServer,
                 httpClosed, srvTask, lsn, shut, sawEngine, inflight, ctxDone, timedOut,
                 recovered, crashed, shutRuns>>

\* startServerInstance: wg.Add(1), go <serving goroutine>, close(gnetStarted),
\* return nil; the calling goroutine then runs its deferred wg.Done.
StarterRun(i) ==
  /\ Running
  /\ starter[i] = "spawned"
  /\ srvTask' = [srvTask EXCEPT ![i] = "spawned"]
  /\ gnetStarted' = [gnetStarted EXCEPT ![i] = TRUE]
  /\ starter' = [starter EXCEPT ![i] = "done"]
  /\ wg' = wg + 1 - 1
  /\ UNCHANGED <<extVars, lbVars, reqVars, auxVars, wsVars, hcVars, supPc, serverInstances, kind,
                 errChan, cause, msmShutdownChan, lis, engineSet, engineStop, httpServer,
                 httpClosed, lsn, shut, sawEngine, inflight, ctxDone, timedOut, recovered,
                 crashed, shutRuns>>

\* gnet.Run binds the address.  On failure it returns the error, which is
\* published unless shutdownChan is already closed, and the goroutine ends.
GnetRun(i, ok) ==
  /\ Running
  /\ kind[i] = "gnet"
  /\ srvTask[i] = "spawned"
  /\ IF ok
       THEN /\ lis' = [lis EXCEPT ![i] = "bound"]
            /\ srvTask' = [srvTask EXCEPT ![i] = "booting"]
            /\ UNCHANGED <<errChan, wg>>
       ELSE /\ lis' = [lis EXCEPT ![i] = "failed"]
            /\ srvTask' = [srvTask EXCEPT ![i] = "exited"]
            /\ errChan' = IF msmShutdownChan THEN errChan ELSE errChan + 1
            /\ wg' = wg - 1
  /\ UNCHANGED <<extVars, lbVars, reqVars, auxVars, wsVars, hcVars, supPc, serverInstances, kind,
                 cause, msmShutdownChan, gnetStarted, engineSet, engineStop, httpServer,
                 httpClosed, starter, lsn, shut, sawEngine, inflight, ctxDone, timedOut,
                 recovered, crashed, shutRuns>>

\* ProxyServer.OnBoot records the engine under ps.mu; the event loops then serve.
OnBoot(i) ==
  /\ Running
  /\ srvTask[i] = "booting"
  /\ engineSet' = [engineSet EXCEPT ![i] = TRUE]
  /\ srvTask' = [srvTask EXCEPT ![i] = "serving"]
  /\ UNCHANGED <<extVars, lbVars, reqVars, auxVars, wsVars, hcVars, supPc, serverInstances, kind, wg,
                 errChan, cause, msmShutdownChan, gnetStarted, lis, engineStop, httpServer,
                 httpClosed, starter, lsn, shut, sawEngine, inflight, ctxDone, timedOut,
                 recovered, crashed, shutRuns>>

\* The stopped engine leaves its event loops once the handler it is running
\* has returned; gnet.Run returns and the goroutine ends.
GnetExit(i) ==
  /\ Running
  /\ srvTask[i] = "serving"
  /\ engineStop[i]
  /\ inflight[i] # "active"
  /\ lis' = [lis EXCEPT ![i] = "stopped"]
  /\ srvTask' = [srvTask EXCEPT ![i] = "exited"]
  /\ wg' = wg - 1
  /\ UNCHANGED <<extVars, lbVars, reqVars, auxVars, wsVars, hcVars, supPc, serverInstances, kind,
                 errChan, cause, msmShutdownChan, gnetStarted, engineSet, engineStop,
                 httpServer, httpClosed, starter, lsn, shut, sawEngine, inflight, ctxDone,
                 timedOut, recovered, crashed, shutRuns>>

\* startWebSocketServer's goroutine: stores instance.httpServer, starts
\* ListenAndServe in a goroutine of its own and waits for shutdownChan.
WsTaskRun(i) ==
  /\ Running
  /\ kind[i] = "websocket"
  /\ srvTask[i] = "spawned"
  /\ httpServer' = [httpServer EXCEPT ![i] = TRUE]
  /\ lsn' = [lsn EXCEPT ![i] = "spawned"]
  /\ srvTask' = [srvTask EXCEPT ![i] = "waiting"]
  /\ UNCHANGED <<extVars, lbVars, reqVars, auxVars, wsVars, hcVars, supPc, serverInstances, kind, wg,
                 errChan, cause, msmShutdownChan, gnetStarted, lis, engineSet, engineStop,
                 httpClosed, starter, shut, sawEngine, inflight, ctxDone, timedOut,
                 recovered, crashed, shutRuns>>

\* server.ListenAndServe: ErrServerClosed when Shutdown came first, else the
\* bind succeeds or its error is published.
ListenAndServe(i, ok) ==
  /\ Running
  /\ lsn[i] = "spawned"
  /\ IF httpClosed[i]
       THEN /\ lsn' = [lsn EXCEPT ![i] = "exited"]
            /\ UNCHANGED <<lis, errChan>>
     ELSE IF ok
       THEN /\ lsn' = [lsn EXCEPT ![i] = "serving"]
            /\ lis' = [lis EXCEPT ![i] = "bound"]
            /\ UNCHANGED errChan
     ELSE /\ lsn' = [lsn EXCEPT ![i] = "exited"]
          /\ lis' = [lis EXCEPT ![i] = "failed"]
          /\ errChan' = errChan + 1
  /\ UNCHANGED <<extVars, lbVars, reqVars, auxVars, wsVars, hcVars, supPc, serverInstances, kind, wg,
                 cause, msmShutdownChan, gnetStarted, engineSet, engineStop, httpServer,
                 httpClosed, starter, srvTask, shut, sawEngine, inflight, ctxDone, timedOut,
                 recovered, crashed, shutRuns>>

\* <-msm.shutdownChan returns: the goroutine ends, whatever the server is doing.
WsTaskExit(i) ==
  /\ Running
  /\ srvTask[i] = "waiting"
  /\ msmShutdownChan
  /\ srvTask' = [srvTask EXCEPT ![i] = "exited"]
  /\ wg' = wg - 1
  /\ UNCHANGED <<extVars, lbVars, reqVars, auxVars, wsVars, hcVars, supPc, serverInstances, kind,
                 errChan, cause, msmShutdownChan, gnetStarted, lis, engineSet, engineStop,
                 httpServer, httpClosed, starter, lsn, shut, sawEngine, inflight, ctxDone,
                 timedOut, recovered, crashed, shutRuns>>

\* A client request is accepted by a listening instance.
Accept(i) ==
  /\ Running
  /\ lis[i] = "bound"
  /\ kind[i] = "gnet" => srvTask[i] = "serving" /\ ~engineStop[i]
  /\ inflight[i] = "none"
  /\ inflight' = [inflight EXCEPT ![i] = "active"]
  /\ UNCHANGED <<extVars, lbVars, reqVars, auxVars, wsVars, hcVars, supPc, serverInstances, kind, wg,
                 errChan, cause, msmShutdownChan, gnetStarted, lis, engineSet, engineStop,
                 httpServer, httpClosed, starter, srvTask, lsn, shut, sawEngine, ctxDone,
                 timedOut, recovered, crashed, shutRuns>>

\* The request's handler returns, its response written.
Complete(i) ==
  /\ Running
  /\ inflight[i] = "active"
  /\ inflight' = [inflight EXCEPT ![i] = "done"]
  /\ UNCHANGED <<extVars, lbVars, reqVars, auxVars, wsVars, hcVars, supPc, serverInstances, kind, wg,
                 errChan, cause, msmShutdownChan, gnetStarted, lis, engineSet, engineStop,
                 httpServer, httpClosed, starter, srvTask, lsn, shut, sawEngine, ctxDone,
                 timedOut, recovered, crashed, shutRuns>>

\* Mutant: a handler that answers with an error also sends on errorChan.
CompleteError_publishes(i) ==
  /\ Running
  /\ inflight[i] = "active"
  /\ inflight' = [inflight EXCEPT ![i] = "failed"]
  /\ errChan' = errChan + 1
  /\ UNCHANGED <<extVars, lbVars, reqVars, auxVars, wsVars, hcVars, supPc, serverInstances, kind, wg,
                 cause, msmShutdownChan, gnetStarted, lis, engineSet, engineStop,
                 httpServer, httpClosed, starter, srvTask, lsn, shut, sawEngine, ctxDone,
                 timedOut, recovered, crashed, shutRuns>>

\* The request's handler returns on one of its error paths: 400, 413, 502 or
\* 503 written by sendErrorResponse or http.Error, or a WebSocket dial or
\* relay error logged.  The handlers hold no reference to runServer's
\* errorChan.
CompleteError(i) ==
  /\ Running
  /\ inflight[i] = "active"
  /\ inflight' = [inflight EXCEPT ![i] = "failed"]
  /\ UNCHANGED <<extVars, lbVars, reqVars, auxVars, wsVars, hcVars, supPc, serverInstances, kind, wg,
                 errChan, cause, msmShutdownChan, gnetStarted, lis, engineSet, engineStop,
                 httpServer, httpClosed, starter, srvTask, lsn, shut, sawEngine, ctxDone,
                 timedOut, recovered, crashed, shutRuns>>

\* runServer's select, case <-sigChan.
Signal ==
  /\ supPc = "run"
  /\ cause' = "signal"
  /\ supPc' = "shutdown"
  /\ UNCHANGED <<extVars, lbVars, reqVars, auxVars, wsVars, hcVars, serverInstances, kind, wg,
                 errChan, msmShutdownChan, gnetStarted, lis, engineSet, engineStop,
                 httpServer, httpClosed, starter, srvTask, lsn, shut, sawEngine, inflight,
                 ctxDone, timedOut, recovered, crashed, shutRuns>>

\* runServer's select, case err := <-errorChan.
ReceiveError ==
  /\ supPc = "run"
  /\ errChan > 0
  /\ errChan' = errChan - 1
  /\ cause' = "error"
  /\ supPc' = "shutdown"
  /\ UNCHANGED <<extVars, lbVars, reqVars, auxVars, wsVars, hcVars, serverInstances, kind, wg,
                 msmShutdownChan, gnetStarted, lis, engineSet, engineStop, httpServer,
                 httpClosed, starter, srvTask, lsn, shut, sawEngine, inflight, ctxDone,
                 timedOut, recovered, crashed, shutRuns>>

\* BeginShutdown starting the shutdown of the first instance only.
BeginShutdown_firstOnly ==
  /\ supPc = "shutdown"
  /\ msmShutdownChan' = TRUE
  /\ shut' = [i \in Instances |-> IF i = 1 THEN "spawned" ELSE "none"]
  /\ supPc' = "wait"
  /\ UNCHANGED <<extVars, lbVars, reqVars, auxVars, wsVars, hcVars, serverInstances, kind, wg,
                 errChan, cause, gnetStarted, lis, engineSet, engineStop, httpServer,
                 httpClosed, starter, srvTask, lsn, sawEngine, inflight, ctxDone, timedOut,
                 recovered, crashed, shutRuns>>

\* runServer after the select: the 30 s shutdownCtx, close(shutdownChan), one
\* goroutine per instance running shutdownServerInstance, then the wait.
BeginShutdown ==
  /\ supPc = "shutdown"
  /\ msmShutdownChan' = TRUE
  /\ shut' = [i \in Instances |-> "spawned"]
  /\ supPc' = "wait"
  /\ UNCHANGED <<extVars, lbVars, reqVars, auxVars, wsVars, hcVars, serverInstances, kind, wg,
                 errChan, cause, gnetStarted, lis, engineSet, engineStop, httpServer,
                 httpClosed, starter, srvTask, lsn, sawEngine, inflight, ctxDone, timedOut,
                 recovered, crashed, shutRuns>>

\* shutdownCtx reaches its deadline.
CtxDeadline ==
  /\ supPc = "wait"
  /\ ~ctxDone
  /\ ctxDone' = TRUE
  /\ UNCHANGED <<extVars, lbVars, reqVars, auxVars, wsVars, hcVars, supPc, serverInstances, kind, wg,
                 errChan, cause, msmShutdownChan, gnetStarted, lis, engineSet, engineStop,
                 httpServer, httpClosed, starter, srvTask, lsn, shut, sawEngine, inflight,
                 timedOut, recovered, crashed, shutRuns>>

\* case <-done: wg.Wait returned.
WaitDone ==
  /\ supPc = "wait"
  /\ wg = 0
  /\ supPc' = "exit"
  /\ UNCHANGED <<extVars, lbVars, reqVars, auxVars, wsVars, hcVars, serverInstances, kind, wg,
                 errChan, cause, msmShutdownChan, gnetStarted, lis, engineSet, engineStop,
                 httpServer, httpClosed, starter, srvTask, lsn, shut, sawEngine, inflight,
                 ctxDone, timedOut, recovered, crashed, shutRuns>>

\* OuterTimeout firing only once every counted goroutine has ended.
OuterTimeout_waitsForTasks ==
  /\ supPc = "wait"
  /\ ctxDone
  /\ wg = 0
  /\ timedOut' = TRUE
  /\ supPc' = "exit"
  /\ UNCHANGED <<extVars, lbVars, reqVars, auxVars, wsVars, hcVars, serverInstances, kind, wg,
                 errChan, cause, msmShutdownChan, gnetStarted, lis, engineSet, engineStop,
                 httpServer, httpClosed, starter, srvTask, lsn, shut, sawEngine, inflight,
                 ctxDone, recovered, crashed, shutRuns>>

\* case <-time.After(35 * time.Second): the timer is created after the 30 s
\* context and fires after it.
OuterTimeout ==
  /\ supPc = "wait"
  /\ ctxDone
  /\ timedOut' = TRUE
  /\ supPc' = "exit"
  /\ UNCHANGED <<extVars, lbVars, reqVars, auxVars, wsVars, hcVars, serverInstances, kind, wg,
                 errChan, cause, msmShutdownChan, gnetStarted, lis, engineSet, engineStop,
                 httpServer, httpClosed, starter, srvTask, lsn, shut, sawEngine, inflight,
                 ctxDone, recovered, crashed, shutRuns>>

\* shutdownServerInstance, the httpServer branch (manager.go): the read of
\* instance.httpServer is not ordered with the serving goroutine's write, so a
\* stored server may or may not be seen.  Shutdown closes the listener.
ShutHTTPServer(i, seen) ==
  /\ Running
  /\ shut[i] = "spawned"
  /\ seen => httpServer[i]
  /\ IF seen
       THEN /\ httpClosed' = [httpClosed EXCEPT ![i] = TRUE]
            /\ lis' = [lis EXCEPT ![i] = IF @ = "bound" THEN "stopped" ELSE @]
            /\ shut' = [shut EXCEPT ![i] = "http_drain"]
       ELSE /\ shut' = [shut EXCEPT ![i] = "lb_stop"]
            /\ UNCHANGED <<httpClosed, lis>>
  /\ UNCHANGED <<extVars, lbVars, reqVars, auxVars, wsVars, hcVars, supPc, serverInstances, kind, wg,
                 errChan, cause, msmShutdownChan, gnetStarted, engineSet, engineStop,
                 httpServer, starter, srvTask, lsn, sawEngine, inflight, ctxDone, timedOut,
                 recovered, crashed, shutRuns>>

\* httpServer.Shutdown returns: no request is active, or the context expired.
ShutHTTPDrained(i) ==
  /\ Running
  /\ shut[i] = "http_drain"
  /\ inflight[i] # "active" \/ ctxDone
  /\ shut' = [shut EXCEPT ![i] = "lb_stop"]
  /\ UNCHANGED <<extVars, lbVars, reqVars, auxVars, wsVars, hcVars, supPc, serverInstances, kind, wg,
                 errChan, cause, msmShutdownChan, gnetStarted, lis, engineSet, engineStop,
                 httpServer, httpClosed, starter, srvTask, lsn, sawEngine, inflight, ctxDone,
                 timedOut, recovered, crashed, shutRuns>>

\* instance.loadBalancer.StopHealthCheck() under recover.
ShutStopLB(i) ==
  /\ Running
  /\ shut[i] = "lb_stop"
  /\ RecoveredStop(i, loadBalancer(i))
  /\ shut' = [shut EXCEPT ![i] = "ws_stop"]
  /\ UNCHANGED <<extVars, lbVars, reqVars, auxVars, wsVars, supPc, serverInstances, kind, wg, errChan,
                 cause, msmShutdownChan, gnetStarted, lis, engineSet, engineStop, httpServer,
                 httpClosed, starter, srvTask, lsn, sawEngine, inflight, ctxDone, timedOut,
                 crashed, shutRuns>>

\* instance.wsLoadBalancer.StopHealthCheck() under recover.
ShutStopWsLB(i) ==
  /\ Running
  /\ shut[i] = "ws_stop"
  /\ RecoveredStop(i, wsLoadBalancer(i))
  /\ shut' = [shut EXCEPT ![i] = "proxy"]
  /\ UNCHANGED <<extVars, lbVars, reqVars, auxVars, wsVars, supPc, serverInstances, kind, wg, errChan,
                 cause, msmShutdownChan, gnetStarted, lis, engineSet, engineStop, httpServer,
                 httpClosed, starter, srvTask, lsn, sawEngine, inflight, ctxDone, timedOut,
                 crashed, shutRuns>>

\* ProxyShutdownStopEngine calling engine.Stop whatever engineSet says.
ProxyShutdownStopEngine_always(i) ==
  /\ Running
  /\ shut[i] = "proxy"
  /\ sawEngine' = [sawEngine EXCEPT ![i] = engineSet[i]]
  /\ engineStop' = [engineStop EXCEPT ![i] = TRUE]
  /\ shut' = [shut EXCEPT ![i] = "engine_wait"]
  /\ UNCHANGED <<extVars, lbVars, reqVars, auxVars, wsVars, hcVars, supPc, serverInstances, kind, wg,
                 errChan, cause, msmShutdownChan, gnetStarted, lis, engineSet, httpServer,
                 httpClosed, starter, srvTask, lsn, inflight, ctxDone, timedOut, recovered,
                 crashed, shutRuns>>

\* ProxyServer.Shutdown: reads engine and engineSet under ps.mu.RLock and, if
\* the engine is set, calls engine.Stop(ctx).
ProxyShutdownStopEngine(i) ==
  /\ Running
  /\ shut[i] = "proxy"
  /\ sawEngine' = [sawEngine EXCEPT ![i] = engineSet[i]]
  /\ engineStop' = [engineStop EXCEPT ![i] = @ \/ engineSet[i]]
  /\ shut' = [shut EXCEPT ![i] = IF engineSet[i] THEN "engine_wait" ELSE "ps_lb_stop"]
  /\ UNCHANGED <<extVars, lbVars, reqVars, auxVars, wsVars, hcVars, supPc, serverInstances, kind, wg,
                 errChan, cause, msmShutdownChan, gnetStarted, lis, engineSet, httpServer,
                 httpClosed, starter, srvTask, lsn, inflight, ctxDone, timedOut, recovered,
                 crashed, shutRuns>>

\* engine.Stop returns: the engine has shut down, or the context expired.
EngineStopReturns(i) ==
  /\ Running
  /\ shut[i] = "engine_wait"
  /\ srvTask[i] = "exited" \/ ctxDone
  /\ shut' = [shut EXCEPT ![i] = "ps_lb_stop"]
  /\ UNCHANGED <<extVars, lbVars, reqVars, auxVars, wsVars, hcVars, supPc, serverInstances, kind, wg,
                 errChan, cause, msmShutdownChan, gnetStarted, lis, engineSet, engineStop,
                 httpServer, httpClosed, starter, srvTask, lsn, sawEngine, inflight, ctxDone,
                 timedOut, recovered, crashed, shutRuns>>

\* ProxyShutdownStopLB without its recover: the panic ends the process.
ProxyShutdownStopLB_noRecover(i) ==
  /\ Running
  /\ shut[i] = "ps_lb_stop"
  /\ StopHealthCheck(loadBalancer(i))
  /\ crashed' = StopPanics(loadBalancer(i))
  /\ shut' = [shut EXCEPT ![i] = IF StopPanics(loadBalancer(i)) THEN @ ELSE "ps_rest"]
  /\ UNCHANGED <<extVars, lbVars, reqVars, auxVars, wsVars, supPc, serverInstances, kind, wg, errChan,
                 cause, msmShutdownChan, gnetStarted, lis, engineSet, engineStop, httpServer,
                 httpClosed, starter, srvTask, lsn, sawEngine, inflight, ctxDone, timedOut,
                 recovered, shutRuns>>

\* ProxyServer.Shutdown: ps.loadBalancer.StopHealthCheck() under recover.
ProxyShutdownStopLB(i) ==
  /\ Running
  /\ shut[i] = "ps_lb_stop"
  /\ RecoveredStop(i, loadBalancer(i))
  /\ shut' = [shut EXCEPT ![i] = "ps_rest"]
  /\ UNCHANGED <<extVars, lbVars, reqVars, auxVars, wsVars, supPc, serverInstances, kind, wg, errChan,
                 cause, msmShutdownChan, gnetStarted, lis, engineSet, engineStop, httpServer,
                 httpClosed, starter, srvTask, lsn, sawEngine, inflight, ctxDone, timedOut,
                 crashed, shutRuns>>

\* ProxyServer.Shutdown to its end: the HTTP/2 and HTTP/3 servers, the idle
\* connections of both clients, return nil.
ProxyShutdownReturns(i) ==
  /\ Running
  /\ shut[i] = "ps_rest"
  /\ shutRuns' = [shutRuns EXCEPT ![i] = @ + 1]
  /\ shut' = [shut EXCEPT ![i] = "done"]
  /\ UNCHANGED <<extVars, lbVars, reqVars, auxVars, wsVars, hcVars, supPc, serverInstances, kind, wg,
                 errChan, cause, msmShutdownChan, gnetStarted, lis, engineSet, engineStop,
                 httpServer, httpClosed, starter, srvTask, lsn, sawEngine, inflight, ctxDone,
                 timedOut, recovered, crashed>>

InitSup == InitPool({"lb"}, {"round_robin"}, {NumBackends}, 1, {"http"}) /\ ~corsEnabled

SupervisorStep ==
  \/ \E k \in Kinds, ok \in BOOLEAN : CreateInstance(k, ok)
  \/ StartAll
  \/ Signal
  \/ ReceiveError
  \/ BeginShutdown
  \/ CtxDeadline
  \/ WaitDone
  \/ OuterTimeout

InstanceStep(i) ==
  \/ StarterRun(i)
  \/ \E ok \in BOOLEAN : GnetRun(i, ok)
  \/ OnBoot(i)
  \/ GnetExit(i)
  \/ WsTaskRun(i)
  \/ \E ok \in BOOLEAN : ListenAndServe(i, ok)
  \/ WsTaskExit(i)
  \/ Accept(i)
  \/ Complete(i)

ShutdownStep(i) ==
  \/ \E seen \in BOOLEAN : ShutHTTPServer(i, seen)
  \/ ShutHTTPDrained(i)
  \/ ShutStopLB(i)
  \/ ShutStopWsLB(i)
  \/ ProxyShutdownStopEngine(i)
  \/ EngineStopReturns(i)
  \/ ProxyShutdownStopLB(i)
  \/ ProxyShutdownReturns(i)

\* The checker goroutines take no step here; their steps are those of SpecHC.
NextSup ==
  \/ SupervisorStep
  \/ \E i \in Instances : InstanceStep(i)
  \/ \E i \in Instances : ShutdownStep(i)

SpecSup == InitSup /\ [][NextSup]_vars

\* The main goroutine is scheduled and the runtime's timers fire.
SupFairness == WF_vars(BeginShutdown) /\ WF_vars(CtxDeadline) /\ WF_vars(OuterTimeout)

SpecSupLive == SpecSup /\ SupFairness

\* The process with requests that fail.
NextSupReq ==
  \/ NextSup
  \/ \E i \in Instances : CompleteError(i)

SpecSupReq == InitSup /\ [][NextSupReq]_vars

\* A caller invokes ProxyServer.Shutdown on the instance once more.
ShutdownAgain(i) ==
  /\ Running
  /\ shut[i] = "done"
  /\ shutRuns[i] < MaxShutdowns
  /\ shut' = [shut EXCEPT ![i] = "proxy"]
  /\ UNCHANGED <<extVars, lbVars, reqVars, auxVars, wsVars, hcVars, supPc, serverInstances, kind, wg,
                 errChan, cause, msmShutdownChan, gnetStarted, lis, engineSet, engineStop,
                 httpServer, httpClosed, starter, srvTask, lsn, sawEngine, inflight, ctxDone,
                 timedOut, recovered, crashed, shutRuns>>

NextPS ==
  \/ NextSup
  \/ \E i \in Instances : ShutdownAgain(i)

SpecPS == InitSup /\ [][NextPS]_vars

TypeOK ==
  /\ \A b \in Backends : Healthy[b] \in {0, 1} /\ Connections[b] \in Int
  /\ \A r \in Requests : up[r] \in Backends \cup {None}

\* ================================================================= claims
InFlight(b) == {r \in Requests : acq[r] > rel[r] /\ up[r] = b}
ActivePcs == {"dispatch", "upgrade", "dial", "relay", "return"}
Retryable == {"none", "refused", "noresp"}
FailedOuts == {"refused", "noresp", "afterhdr"}
HttpPaths == {"gnet", "http", "h2"}
Unavailable == [status |-> StatusServiceUnavailable, body |-> "Service Unavailable"]

\* C1: under every policy, when GetUpstream returns, a returned upstream is one
\* whose health flag this call read as 1 (it is in the call's healthy list, and
\* every scan step appended exactly the upstreams it read as healthy), and nil
\* is returned exactly when the call saw no healthy upstream.
C1_SelectReturnsSeenHealthy ==
  [][\A r \in Requests :
       /\ (pc[r] = "select" /\ idx'[r] = idx[r] + 1) =>
            hl'[r] = (IF Healthy[idx[r]] = 1 THEN Append(hl[r], idx[r]) ELSE hl[r])
       /\ (pc[r] = "select" /\ pc'[r] # "select") =>
            /\ (up'[r] = None) <=> (hl[r] = <<>>)
            /\ up'[r] # None => SeqContains(hl[r], up'[r])]_vars

\* C1 witness: a call returned a healthy upstream while another one is unhealthy.
C1_Witness ==
  \E r \in Requests : pc[r] = "acquire" /\ Healthy[up[r]] = 1 /\ \E b \in Backends : Healthy[b] = 0

\* C2: each in-flight counter equals the number of requests that increased it
\* and have not yet decreased it, is never negative, and is 0 when no
\* forwarded request on that backend is active.
C2_CounterIsInFlight ==
  \A b \in Backends :
    /\ Connections[b] = Cardinality(InFlight(b))
    /\ Connections[b] >= 0
    /\ (\A r \in Requests : up[r] = b => pc[r] \notin ActivePcs) => Connections[b] = 0

\* C2 witness: two requests are in flight on the same backend.
C2_Witness == \E b \in Backends : Connections[b] = 2 /\ Cardinality(InFlight(b)) = 2

\* C3: a handler increases the counter at most once, releases only what it
\* acquired and on the same backend, and has released exactly once whenever it
\* has returned after acquiring, whatever the exit path.
C3_AcquireReleaseBracket ==
  \A r \in Requests :
    /\ rel[r] <= acq[r] /\ acq[r] <= 1
    /\ acq[r] = 1 => up[r] # None
    /\ rel[r] = 1 => relUp[r] = up[r]
    /\ pc[r] = "done" => rel[r] = acq[r]
    /\ pc[r] \in ActivePcs => acq[r] = 1 /\ rel[r] = 0

\* C3 witness: a request answered 502 has acquired and released its backend.
C3_Witness ==
  \E r \in Requests :
    pc[r] = "done" /\ resp[r].status = StatusBadGateway /\ acq[r] = 1 /\ rel[r] = 1

\* C4: a request makes at most R+1 upstream dispatches, R = 2 on the event-loop
\* path and R = 3 on the standard HTTP path.
C4_BoundedDispatches ==
  \A r \in Requests :
    /\ path[r] = "gnet" => disp[r] <= HotMaxRetries + 1
    /\ path[r] = "http" => disp[r] <= StdMaxRetries + 1

\* C4 witness: a standard-path request used all of its attempts.
C4_Witness ==
  \E r \in Requests : path[r] = "http" /\ disp[r] = StdMaxRetries + 1 /\ out[r] \in FailedOuts

\* C5 (as claimed): on every forwarding path a request whose last attempt failed
\* is answered 502 with its backend marked unhealthy by the handler, and the
\* handler marks nothing when a retry succeeded.
C5_Claimed ==
  \A r \in Requests :
    (pc[r] = "done" /\ path[r] \in HttpPaths /\ acq[r] = 1) =>
      /\ out[r] \in FailedOuts => (resp[r].status = StatusBadGateway /\ marked[r])
      /\ out[r] = "ok" => ~marked[r]

\* C6 (as claimed): a request answered 502 was dispatched R+1 times, 3 on the
\* event-loop path and 4 on the standard HTTP path.
C6_Claimed ==
  \A r \in Requests :
    (pc[r] = "done" /\ resp[r].status = StatusBadGateway) =>
      /\ path[r] = "gnet" => disp[r] = HotMaxRetries + 1
      /\ path[r] = "http" => disp[r] = StdMaxRetries + 1

\* C7 (as claimed): a further dispatch is made only after an error that means
\* the upstream was not contacted or did not respond, never after response
\* headers were received.
C7_Claimed ==
  [][\A r \in Requests : disp'[r] > disp[r] => out[r] \in Retryable]_vars

C9_Claimed ==
  \A r \in Requests :
    big[r] => /\ pc[r] = "done"
              /\ resp[r].status = StatusRequestEntityTooLarge
              /\ up[r] = None /\ acq[r] = 0 /\ disp[r] = 0 /\ ~marked[r]

\* C10 (as claimed): with CORS enabled an OPTIONS request from a permitted
\* origin is answered 200 and ends there on the event-loop path and on the
\* standard HTTP path: no selection, no counter change, no upstream contact.
C10_Claimed ==
  \A r \in Requests :
    (preflight[r] /\ path[r] \in {"gnet", "http"}) =>
      /\ pc[r] = "done"
      /\ resp[r] = [status |-> StatusOK, body |-> ""]
      /\ up[r] = None /\ acq[r] = 0 /\ disp[r] = 0

\* ------------------------------------------------ claims on selection order
LastMark(tr) == IF Marks(tr) = {} THEN 0 ELSE CHOOSE i \in Marks(tr) : \A j \in Marks(tr) : j <= i

\* The picks made since the health flags last changed.
StablePicks == [i \in 1..(Len(trace) - LastMark(trace)) |-> trace[LastMark(trace) + i].b]

CountIn(ps, i, j, b) == Cardinality({k \in i..j : ps[k] = b})
HealthySet == {b \in Backends : Healthy[b] = 1}
FreshRoundRobin3 == method = "round_robin" /\ Len(upstreams) = 3 /\ Marks(trace) = {}

\* C11 (as claimed): under round_robin on a fresh pool [A,B,C], all healthy, the
\* i-th sequential selection returns A,B,C,A,B,C,A,B,C: the first one returns
\* the first backend in pool order.
C11_Claimed ==
  FreshRoundRobin3 => \A i \in 1..Len(trace) : trace[i].b = ((i - 1) % 3) + 1

\* C11 (amended): under round_robin on a fresh pool [A,B,C], all healthy, 9
\* sequential selections return B,C,A,B,C,A,B,C,A: the i-th selection returns
\* the backend at zero-based position i mod 3, so the first one returns the
\* second backend in pool order, and each backend is returned 3 times.
C11_RotationStartsAtSecond ==
  FreshRoundRobin3 =>
    /\ \A i \in 1..Len(trace) : trace[i].b = (i % 3) + 1
    /\ Len(trace) = 9 => \A b \in Backends : CountIn(StablePicks, 1, 9, b) = 3

\* C11 witness: nine selections were made on the fresh three-backend pool.
C11_Witness == FreshRoundRobin3 /\ Len(trace) = 9 /\ trace[1].b = 2 /\ trace[9].b = 1

C13_WeightedShares ==
  method = "weighted_round_robin" =>
    LET ps == StablePicks
        W == SumWeights(upstreams, ScanFrom(Healthy, 1, <<>>))
    IN  W > 0 =>
          /\ \A i \in 1..Len(ps) : ps[i] \in HealthySet /\ upstreams[ps[i]].Weight > 0
          /\ \A i \in 1..Len(ps) : (i + W - 1 <= Len(ps)) =>
               \A b \in HealthySet : CountIn(ps, i, i + W - 1, b) = upstreams[b].Weight
          /\ (Len(upstreams) = 2 /\ upstreams[1].Weight = 3 /\ upstreams[2].Weight = 1
                /\ Marks(trace) = {} /\ Len(trace) = 8) =>
               CountIn(ps, 1, 8, 1) = 6 /\ CountIn(ps, 1, 8, 2) = 2

\* C13 witness: eight selections were made on the fresh pool [A(3), B(1)].
C13_Witness ==
  /\ method = "weighted_round_robin" /\ Len(upstreams) = 2 /\ Marks(trace) = {} /\ Len(trace) = 8
  /\ upstreams[1].Weight = 3 /\ upstreams[2].Weight = 1
  /\ CountIn(StablePicks, 1, 8, 1) = 6

\* Backend b was marked unhealthy before position i of the trace and not
\* marked healthy since.
DownAt(tr, i, b) ==
  \E j \in 1..(i - 1) :
    /\ tr[j] = [op |-> "down", b |-> b]
    /\ \A k \in (j + 1)..(i - 1) : tr[k] # [op |-> "up", b |-> b]

\* The failover scenario: one selection, A marked unhealthy, two selections,
\* A marked healthy, two selections.
FailoverShape(tr, n) ==
  /\ method = "round_robin" /\ Len(upstreams) = 2 /\ Len(tr) >= n
  /\ \A i \in 1..n : IF i = 2 THEN tr[i] = [op |-> "down", b |-> 1]
                     ELSE IF i = 5 THEN tr[i] = [op |-> "up", b |-> 1]
                     ELSE tr[i].op = "sel"

\* C14: a selection never returns a backend that was marked unhealthy and not
\* marked healthy since; on pool [A,B] under round_robin, after one selection
\* and marking A unhealthy the next two selections return B, and after
\* marking A healthy the next two return A then B.
C14_FailoverAndReentry ==
  /\ \A i \in Selections(trace) : ~DownAt(trace, i, trace[i].b)
  /\ FailoverShape(trace, 3) => trace[3].b = 2
  /\ FailoverShape(trace, 4) => trace[4].b = 2
  /\ FailoverShape(trace, 6) => trace[6].b = 1
  /\ FailoverShape(trace, 7) => trace[7].b = 2

\* C14 witness: the whole failover scenario was played.
C14_Witness == FailoverShape(trace, 7) /\ Len(trace) = 7 /\ trace[6].b = 1

\* C16: a weighted_round_robin selection whose healthy backends have weights
\* summing to 0 returns what round_robin returns on the same healthy list and
\* counter, the backend at position (counter + 1) mod length, never nil, and
\* advances the counter by one.
C16_ZeroWeightIsRoundRobin ==
  [][(method = "weighted_round_robin" /\ Len(trace') = Len(trace) + 1
        /\ trace'[Len(trace')].op = "sel") =>
       LET list == ScanFrom(Healthy, 1, <<>>)
       IN  (list # <<>> /\ \A b \in HealthySet : upstreams[b].Weight = 0) =>
             /\ trace'[Len(trace')].b = list[((current + 1) % Len(list)) + 1]
             /\ trace'[Len(trace')].b # None
             /\ current' = current + 1]_vars

\* C16 witness: two selections on a pool of two healthy weight-0 backends
\* returned two different backends.
C16_Witness ==
  /\ method = "weighted_round_robin" /\ Len(upstreams) = 2 /\ Marks(trace) = {} /\ Len(trace) = 2
  /\ upstreams[1].Weight = 0 /\ upstreams[2].Weight = 0
  /\ trace[1].b = 2 /\ trace[2].b = 1

\* C15: a least_connections selection returns a backend it read as healthy
\* whose in-flight count is minimal among those, and every healthy backend
\* before it in pool order has a strictly larger count (first wins a tie).
C15_LeastConnectionsFirstMinimum ==
  [][\A r \in Requests :
       (method = "least_connections" /\ pc[r] = "select" /\ pc'[r] # "select" /\ hl[r] # <<>>) =>
         /\ SeqContains(hl[r], up'[r])
         /\ \A i \in 1..Len(hl[r]) :
              /\ Connections[up'[r]] <= Connections[hl[r][i]]
              /\ hl[r][i] < up'[r] => Connections[up'[r]] < Connections[hl[r][i]]]_vars

\* C15 witness: with both backends healthy a call returned the second one
\* because the first one has a request in flight.
C15_Witness ==
  \E r \in Requests :
    /\ method = "least_connections" /\ pc[r] = "acquire" /\ up[r] = 2
    /\ Connections[1] = 1 /\ Connections[2] = 0 /\ Healthy[1] = 1

\* C17: a health-check round starts a goroutine for every backend; the one of
\* an http or https backend probes it and leaves it healthy iff the probe
\* returned 200 without error, unhealthy on any other status or on an error
\* (network failure, timeout); the one of a ws or wss backend makes no probe
\* and leaves its flag healthy.
C17_RoundVerdict ==
  [][/\ (pending = {} /\ pending' # {}) => pending' = Backends
     /\ \A b \in Backends :
          (b \in pending /\ b \notin pending') =>
            IF upstreams[b].Scheme \in {"ws", "wss"}
              THEN Healthy'[b] = 1 /\ lastProbe'[b] = NotProbed
              ELSE /\ lastProbe'[b] \in ProbeResults
                   /\ Healthy'[b] = 1 <=> (~lastProbe'[b].err /\ lastProbe'[b].status = StatusOK)
     /\ \A b \in Backends :
          upstreams[b].Scheme \in {"ws", "wss"} => lastProbe'[b] = NotProbed]_vars

\* C17 witness: a round is over in which the http backend answered 503 and is
\* unhealthy, and the ws backend, which the request's handler had marked
\* unhealthy, is healthy again.
C17_Witness ==
  /\ Len(upstreams) = 2 /\ pending = {}
  /\ upstreams[1].Scheme = "http" /\ upstreams[2].Scheme = "ws"
  /\ lastProbe[1] = [err |-> FALSE, status |-> StatusServiceUnavailable] /\ Healthy[1] = 0
  /\ marked[1] /\ up[1] = 2 /\ Healthy[2] = 1

\* ------------------------------------------------------ claims on the relay
RelayRan(r) == \E d \in Dirs : task[r][d] # "none"
SawError(r) == \E d \in Dirs : task[r][d] \in {"publish", "exited"}
SessionOver(r) ==
  /\ pc[r] = "done" /\ rel[r] = 1 /\ Connections[up[r]] = 0
  /\ clientConn[r] = "closed" /\ upstreamConn[r] = "closed"

\* C18: once either relay goroutine has seen a read or write error, the
\* session ends: the handler returns, both connections are closed, the
\* backend's in-flight counter is back at its value before the handshake, and
\* both goroutines end; a goroutine publishing its error never finds errorChan
\* full.
C18_RelayEnds ==
  /\ [](\A d \in Dirs : task[1][d] = "publish" => Len(errorChan[1]) < ErrorChanCap)
  /\ []((RelayRan(1) /\ pc[1] = "done") => SessionOver(1))
  /\ (SawError(1) ~> (SessionOver(1) /\ \A d \in Dirs : task[1][d] = "exited"))

\* C18 witness: the session is over after the client-side goroutine relayed a
\* message and the second goroutine's error stayed in errorChan.
C18_Witness ==
  /\ SessionOver(1) /\ \A d \in Dirs : task[1][d] = "exited"
  /\ Len(errorChan[1]) = 1 /\ Len(wr[1]["client->upstream"]) = 1

DataOf(frames) == SelectSeq(frames, LAMBDA f : f.type \in DataTypes)
IsPrefix(a, b) == Len(a) <= Len(b) /\ a = SubSeq(b, 1, Len(a))

\* C19 (as claimed): in each direction every frame the peer sent is written to
\* the other side, in order, type and payload unchanged, none dropped or
\* duplicated while the goroutine of that direction runs.
C19_Claimed ==
  \A d \in Dirs :
    /\ IsPrefix(wr[1][d], wire[1][d])
    /\ task[1][d] = "read" => wr[1][d] = wire[1][d]
    /\ task[1][d] = "write" => Len(wire[1][d]) = Len(wr[1][d]) + 1

\* C19 (amended): in each direction the text and binary messages the relay
\* reads are the peer's data frames in order, and they are written to the other
\* side in that order, type and payload unchanged, none dropped or duplicated
\* while the goroutine of that direction runs; ping and pong frames are
\* handled on the proxy's side of the connection and are not forwarded.
C19_MessagesInOrder ==
  \A d \in Dirs :
    /\ rd[1][d] = DataOf(wire[1][d])
    /\ IsPrefix(wr[1][d], rd[1][d])
    /\ task[1][d] = "read" => wr[1][d] = rd[1][d]
    /\ task[1][d] = "write" =>
         /\ Len(rd[1][d]) = Len(wr[1][d]) + 1
         /\ held[1][d] = rd[1][d][Len(rd[1][d])]

\* C19 witness: two different messages went through one direction.
C19_Witness ==
  \E d \in Dirs :
    /\ Len(wr[1][d]) = 2 /\ wr[1][d] = wire[1][d]
    /\ wr[1][d][1].type = "binary" /\ wr[1][d][2].type = "text"
    /\ wr[1][d][1].data # wr[1][d][2].data

\* C20: when the dial of the selected backend fails the handler writes the
\* client a close frame with the policy-violation code and the reason
\* "Upstream connection failed", starts no relay goroutine, and returns with
\* the client connection closed and the backend's in-flight counter released;
\* no close frame is written otherwise.
C20_DialFailureClosesClient ==
  \A r \in Requests :
    /\ (path[r] = "ws" /\ out[r] = "refused") =>
         /\ closeFrame[r] = [code |-> ClosePolicyViolation, reason |-> "Upstream connection failed"]
         /\ \A d \in Dirs : task[r][d] = "none"
         /\ errorChan[r] = <<>> /\ upstreamConn[r] = "none"
         /\ pc[r] \in {"return", "done"}
         /\ pc[r] = "done" =>
              /\ clientConn[r] = "closed"
              /\ acq[r] = 1 /\ rel[r] = 1 /\ Connections[up[r]] = 0
    /\ out[r] # "refused" => closeFrame[r] = NoCloseFrame

\* C20 witness: a handler has returned after a failed dial.
C20_Witness ==
  \E r \in Requests :
    /\ pc[r] = "done" /\ path[r] = "ws" /\ out[r] = "refused" /\ upgraded[r]
    /\ closeFrame[r].code = ClosePolicyViolation /\ clientConn[r] = "closed"

\* -------------------------------------------------- claims on the lifecycle
\* C21, as claimed: every StopHealthCheck call on a pool completes normally,
\* the second as well as the first, whoever makes it.
C21_Claimed ==
  \A p \in Pools : \A k \in 1..Len(stops[p]) : stops[p][k] = "ok"

\* C23, as claimed: a pool started twice has exactly one checker goroutine
\* until it is stopped, and no probing round begins once a StopHealthCheck
\* has returned.
C23_Claimed ==
  \A p \in Pools :
    /\ (healthTicker[p] >= 2 /\ stops[p] = <<>>) => Cardinality(ActiveCheckers(p)) = 1
    /\ (healthTicker[p] >= 2 /\ stops[p] # <<>>) => lateRounds[p] = 0

\* ProxyServer.Shutdown's own steps, and what it can change on its instance.
PsPcs == {"proxy", "engine_wait", "ps_lb_stop", "ps_rest"}
PsState(i) ==
  <<engineSet[i], engineStop[i], healthTicker[loadBalancer(i)], shutdownChan[loadBalancer(i)],
    tickerStopped[loadBalancer(i)], chanClosed[loadBalancer(i)]>>
PsSteps(i) == shut[i] \in PsPcs /\ shut'[i] # shut[i]

C24_Claimed ==
  \A i \in Instances : gnetStarted[i] => lis[i] \in {"bound", "stopped"}

\* C25: runServer leaves its select only on a signal or on an error that a
\* failed listener published, starts no shutdown before that, and then starts
\* the shutdown of every instance.
C25_RunBlocksThenShutsDownAll ==
  /\ supPc \in {"shutdown", "wait", "exit"} => cause \in {"signal", "error"}
  /\ cause = "error" => \E i \in Instances : lis[i] = "failed"
  /\ supPc \in {"create", "run", "shutdown", "failed"} =>
       (~msmShutdownChan /\ \A i \in Instances : shut[i] = "none")
  /\ supPc \in {"wait", "exit"} => (msmShutdownChan /\ \A i \in Instances : shut[i] # "none")

C25_Witness ==
  /\ supPc = "wait"
  /\ cause = "error"
  /\ \E i \in Instances : lis[i] = "bound" /\ shut[i] \notin {"none", "spawned"}

\* C26: once runServer has left its select it reaches its return, whether or
\* not the serving goroutines end.
C26_ShutdownReachesExit == (supPc = "shutdown") ~> (supPc = "exit")

C26_Witness ==
  /\ supPc = "exit"
  /\ timedOut
  /\ \E i \in Instances : srvTask[i] \in {"booting", "serving", "waiting"}

\* C27, as claimed: unless the 35 s timer fired, runServer returns only after
\* every instance's shutdown has finished and no accepted request is left
\* without its response.
C27_Claimed ==
  (supPc = "exit" /\ ~timedOut) =>
    \A i \in Instances : shut[i] = "done" /\ inflight[i] # "active"

\* C28, as claimed: ProxyServer.Shutdown on an instance whose gnet listener
\* is bound stops the engine, whether or not OnBoot has run yet.
C28_Claimed ==
  [][\A i \in Instances :
       (PsSteps(i) /\ shut[i] = "proxy" /\ kind[i] = "gnet" /\ lis[i] = "bound")
         => engineStop'[i]]_vars

C30_Claimed ==
  supPc = "failed" =>
    \A i \in 1..Len(serverInstances) : stops[loadBalancer(i)] # <<>>

\* C38, as claimed: once the shutdown routine of a websocket-type instance
\* has completed, the instance's HTTP listener accepts no connection, however
\* the start task and the shutdown routine interleave.
C38_Claimed ==
  \A i \in Instances :
    (kind[i] = "websocket" /\ shut[i] = "done") => (lis[i] # "bound" /\ lsn[i] # "serving")

\* C39, as claimed: on a pool started once, no health-check round starts
\* after a StopHealthCheck call has returned, a tick pending at the stop
\* included.
C39_Claimed ==
  \A p \in Pools :
    (healthTicker[p] = 1 /\ stops[p] # <<>>) => lateRounds[p] = 0

\* C31: a handler returning on an error path publishes nothing and moves the
\* supervisor nowhere; whatever is published comes from a listener that
\* failed, one error per failure; a listener stopped by the shutdown, or a
\* ListenAndServe that finds its server shut down, publishes nothing, and
\* neither does gnet.Run failing once shutdown has been requested.
C31_OnlyListenerErrorsPublished ==
  [][ /\ (\E i \in Instances : inflight[i] = "active" /\ inflight'[i] = "failed")
           => (errChan' = errChan /\ supPc' = supPc /\ cause' = cause
               /\ msmShutdownChan' = msmShutdownChan)
      /\ errChan' > errChan
           => (errChan' = errChan + 1
               /\ \E i \in Instances : lis[i] # "failed" /\ lis'[i] = "failed")
      /\ \A i \in Instances :
           ( \/ (lis[i] = "bound" /\ lis'[i] = "stopped")
             \/ (lsn[i] = "spawned" /\ lsn'[i] = "exited" /\ httpClosed[i])
             \/ (kind[i] = "gnet" /\ msmShutdownChan /\ lis[i] # "failed" /\ lis'[i] = "failed") )
           => errChan' <= errChan ]_vars

\* C31 witness: a request has failed on an instance and the supervisor still
\* waits in its select, the error channel empty.
C31_Witness ==
  \E i \in Instances :
    inflight[i] = "failed" /\ supPc = "run" /\ errChan = 0 /\ cause = "none"

\* ------------------------------------------------ claims on the CORS filter
\* The request reached handleCORS with CORS enabled.
CorsSeen(r) == reqMethod[r] # ""
\* handleCORS answered the request as a preflight.
PreflightAnswered(r) ==
  pc[r] = "done" /\ disp[r] = 0 /\ up[r] = None /\ resp[r] = [status |-> StatusOK, body |-> ""]
Wildcard(allowed) == Len(allowed) = 0 \/ SeqContains(allowed, "*")

\* C32, as claimed: with CORS enabled and an allowed-origins list that is
\* empty or holds "*" at any position, an OPTIONS request of any origin is
\* answered as a preflight advertising "*", and a forwarded response
\* advertises "*".
C32_Claimed ==
  \A r \in Requests :
    (CorsSeen(r) /\ Wildcard(allowedOrigins)) =>
      /\ reqMethod[r] = "OPTIONS" => (PreflightAnswered(r) /\ acao[r] = "*")
      /\ acao[r] \in {"", "*"}

\* C33, as claimed: with CORS enabled and a restrictive list, a request whose
\* origin matches no entry gets no preflight answer and no
\* Access-Control-Allow-Origin on whatever response it gets.
C33_Claimed ==
  \A r \in Requests :
    (CorsSeen(r) /\ ~Wildcard(allowedOrigins) /\ ~SeqContains(allowedOrigins, reqOrigin[r])) =>
      (~PreflightAnswered(r) /\ acao[r] = "")

\* What handleCORS decided for a request and the origin it advertised.
PreflightOutcome(r) ==
  IF PreflightAnswered(r) THEN [answered |-> TRUE, origin |-> acao[r]]
  ELSE [answered |-> FALSE, origin |-> ""]

Failed(o) == o \in {"refused", "noresp"}

\* C34, as claimed: a request served by the HTTP/2-3 handler and one served
\* by the HTTP forwarder, both sent to the same backend and both finding it
\* failing every attempt, end with the same number of dispatches, the same
\* acquire and release counts, the same health-flag change and the same
\* response.
C34_Claimed ==
  \A r1, r2 \in Requests :
    ( /\ path[r1] = "http" /\ path[r2] = "h2"
      /\ pc[r1] = "done" /\ pc[r2] = "done"
      /\ up[r1] # None /\ up[r1] = up[r2]
      /\ Failed(out[r1]) /\ Failed(out[r2]) )
    => ( /\ disp[r1] = disp[r2]
         /\ acq[r1] = acq[r2] /\ rel[r1] = rel[r2]
         /\ marked[r1] = marked[r2]
         /\ resp[r1] = resp[r2] )

\* C36: every dispatch of a request goes to the backend its one selection
\* returned, which is the backend whose counter the handler holds and
\* releases; once made, the selection is never made again.
C36_OneBackendPerRequest ==
  /\ [](\A r \in Requests :
          /\ Len(attempts[r]) = disp[r]
          /\ \A k \in 1..Len(attempts[r]) : attempts[r][k] = up[r]
          /\ attempts[r] # <<>> => acq[r] = 1
          /\ rel[r] = 1 => relUp[r] = up[r])
  /\ [][\A r \in Requests : up[r] # None => up'[r] = up[r]]_vars

\* C36 witness: on a pool of two backends a request of the event-loop path
\* was dispatched twice, both times to the backend it selected.
C36_Witness ==
  \E r \in Requests :
    /\ Len(upstreams) = 2 /\ path[r] = "gnet" /\ pc[r] = "done"
    /\ Len(attempts[r]) = 2 /\ attempts[r][1] = up[r] /\ attempts[r][2] = up[r]

\* roundRobin serves round_robin and every unknown policy name.
Rotating(m) == m \notin {"least_connections", "single"}
Selects(r) == pc[r] = "select" /\ pc'[r] = "acquire"

\* C37: a selection that finds a healthy backend advances the counter by
\* exactly 1 under round_robin and weighted_round_robin and not at all under
\* least_connections and single; no other step changes the counter; the
\* values two selections get from the counter differ.
C37_CounterAdvance ==
  [][ /\ \A r \in Requests :
           Selects(r) => IF Rotating(method)
                           THEN current' = current + 1 /\ ticket'[r] = current'
                           ELSE current' = current /\ ticket'[r] = 0
      /\ current' # current => \E r \in Requests : Selects(r) /\ Rotating(method)
      /\ \A r1, r2 \in Requests :
           (r1 # r2 /\ ticket'[r1] # 0 /\ ticket'[r2] # 0) => ticket'[r1] # ticket'[r2] ]_vars

\* C37 witness: under weighted_round_robin with every weight 0 two selections
\* were made, each got its own counter value, and the counter stands at 2.
C37_Witness ==
  /\ method = "weighted_round_robin" /\ Len(upstreams) = 2
  /\ \A b \in Backends : upstreams[b].Weight = 0
  /\ current = 2 /\ ticket[1] # ticket[2] /\ ticket[1] # 0 /\ ticket[2] # 0

\* ---------------------------------------------- claims on the relay timeout
\* C40: a read deadline changes only when the relay starts or when its own
\* direction has relayed a message; a reader never waits past its deadline;
\* and once a direction's deadline is reached with its reader still waiting,
\* the session ends, whatever the other direction relays.
C40_IdleDirectionEndsSession ==
  /\ [][\A d \in Dirs :
          deadline'[1][d] # deadline[1][d] =>
            \/ task[1][d] = "none" /\ task'[1][d] = "read"
            \/ task[1][d] = "write" /\ task'[1][d] = "read"]_vars
  /\ [](\A d \in Dirs : task[1][d] = "read" => now <= deadline[1][d])
  /\ \A d \in Dirs : Expired(1, d) ~> SessionOver(1)

\* C40 witness: the client has sent nothing and its direction's deadline is
\* reached, while the upstream's direction has relayed a message and holds a
\* later deadline.
C40_Witness ==
  /\ Expired(1, "client->upstream") /\ wire[1]["client->upstream"] = <<>>
  /\ Len(wr[1]["upstream->client"]) >= 1
  /\ deadline[1]["upstream->client"] > now


====
